---- MODULE Spec2Model ----
(***************************************************************************)
(* State-capture decision engine of multi-agent-browsing.                  *)
(*                                                                         *)
(* Two copies of the orchestrator exist in the repository:                 *)
(*   variant "A": src/task_runner.py, src/state_capture.py,                *)
(*                src/browser_agent_wrapper.py, src/dataset_writer.py      *)
(*   variant "B": src/agent_b/task_runner.py, src/agent_b/state_capture.py,*)
(*                src/agent_b/browser_agent.py, src/agent_b/output_manager *)
(* The model carries the variant as a variable fixed by Init and follows   *)
(* each copy where they differ.                                            *)
(*                                                                         *)
(* Spec        one TaskRunner instance whose run() is invoked once.        *)
(* RerunSpec   the same, with run() invoked again after it has ended.      *)
(* PolicySpec  StateCapture.should_capture / capture_step called directly  *)
(*             with inputs drawn from bounded sets.                        *)
(* LiveSpec    Spec with every awaited call eventually returning/raising.  *)
(* ConcurrentSpec  two TaskRunners sharing one output base directory.      *)
(* ClassifierSpec  step() / get_last_action() of one wrapper called        *)
(*             directly with engine outputs drawn from bounded sets.       *)
(* RecorderSpec  capture_step of one StateCapture called directly, with    *)
(*             and without a screenshot in the state.                      *)
(* CallbackSpec  one UIStateCaptureAgent (src/ui_state_capture_agent.py)   *)
(*             with its UIChangeDetector and the debounce tasks.           *)
(* LifecycleSpec  initialize / step / get_state / is_done / close of one   *)
(*             engine wrapper called in any order.                         *)
(***************************************************************************)
EXTENDS Integers, Sequences, FiniteSets, TLC

VARIABLES
    variant,        \* which copy of the code is running
    pc,             \* position of run() between its suspension points
    runNo,          \* number of run() invocations made on this TaskRunner
    run_limit,      \* how many times the caller invokes run()
    task_run,       \* self.task_run
    task_dir,       \* self.task_dir (0 = None)
    steps,          \* self.steps
    sc,             \* self.state_capture
    wrapper,        \* self.agent_wrapper
    engine,         \* the browser-use Agent's state (agent.state)
    max_steps,      \* self.max_steps
    step_num,       \* loop variable of run()
    exc,            \* an exception raised in the try block is propagating
    outcome,        \* how the last run() ended for its caller
    disk,           \* files under the output base directory, per task dir
    h,              \* per-run observation record (history of calls)
    pol,            \* PolicySpec: record of the last direct policy call
    conc,           \* ConcurrentSpec: two TaskRunners sharing one base directory
    clf,            \* ClassifierSpec: record of the last get_last_action call
    cap,            \* RecorderSpec: record of the last direct capture_step call
    ui,             \* CallbackSpec: one UIStateCaptureAgent, its detector and tasks
    life            \* LifecycleSpec: one engine wrapper driven call by call

vars == <<variant, pc, runNo, run_limit, task_run, task_dir, steps, sc, wrapper, engine,
          max_steps, step_num, exc, outcome, disk, h, pol, conc, clf, cap, ui, life>>

runVars == <<pc, runNo, run_limit, task_run, task_dir, steps, wrapper, engine,
             max_steps, step_num, exc, outcome, disk, h>>

----------------------------------------------------------------------------
(* Bounds *)

MaxStepsBudget == 3   \* Spec: max_steps of the TaskRunner
MaxRuns == 2          \* RerunSpec: run() invocations on the one TaskRunner
RerunBudget == 1      \* RerunSpec: max_steps of the TaskRunner
MaxIndex == 2         \* PolicySpec: captures made on the recorder
MaxMinutes == 2       \* ConcurrentSpec: wall-clock minutes that pass
MaxConcSteps == 2     \* ConcurrentSpec: captures made by each runner
LongLen == 120        \* ClassifierSpec: characters of the long text sample
MaxUiRuns == 3        \* CallbackSpec: run() invocations on the one agent
MaxTasks == 2         \* CallbackSpec: debounce tasks created by trigger_capture
MaxCallbacks == 1     \* CallbackSpec: step callbacks made by the engine
MaxEngines == 2       \* LifecycleSpec: engines one wrapper creates

----------------------------------------------------------------------------
(* Values *)

NoneUrl == "None"                 \* Python None for an Optional[str]
Urls == {"", "a"}                 \* state.url samples ("" is falsy in Python)

IN_PROGRESS == "in_progress"
SUCCESS == "success"
TIMEOUT == "timeout"
FAILURE == "failure"
TaskStatus == {SUCCESS, TIMEOUT, FAILURE, IN_PROGRESS}

CLICK == "click"
TYPE == "type"
NAVIGATE == "navigate"
SCROLL == "scroll"
WAIT == "wait"
OTHER_ == "other"   \* ActionType.OTHER (OTHER is a TLA+ keyword)
ActionType == {CLICK, TYPE, NAVIGATE, SCROLL, WAIT, OTHER_}

\* Optional values are sequences of length 0 (None) or 1.
None == <<>>
Some(x) == <<x>>
IsSome(o) == Len(o) > 0
Get(o) == o[1]

ActionFromPrevious(t, idx) == [type |-> t, element_index |-> idx]
NoIndex == -1    \* element_index = None

----------------------------------------------------------------------------
(* Text.  A text is a sequence of atoms; the tables give, for each atom,   *)
(* its lower-cased form and the needles that occur in it as substrings.    *)

Atoms == {"Clicked", "clicked", "Typed", "Navigated", "Searched", "Scrolled",
          "Done", "button", "ROLE=DIALOG", "role=dialog", "role=alertdialog",
          "Modal", "modal", "dialog", "link"}

\* a keyword-free run of text, LongLen characters long
LongText == "lorem ipsum ..."

Lower(a) ==
    CASE a = "Clicked" -> "clicked"
      [] a = "CLICKED" -> "clicked"
      [] a = "Input" -> "input"
      [] a = "Typed" -> "typed"
      [] a = "Navigated" -> "navigated"
      [] a = "Searched" -> "searched"
      [] a = "Scrolled" -> "scrolled"
      [] a = "Done" -> "done"
      [] a = "ROLE=DIALOG" -> "role=dialog"
      [] a = "Modal" -> "modal"
      [] OTHER -> a

\* needles of the code that are substrings of atom a (case-sensitive)
SubstringsOf(a) ==
    CASE a = "Clicked" -> {"Clicked"}
      [] a = "clicked" -> {"clicked", "click"}
      [] a = "Typed" -> {"Typed"}
      [] a = "typed" -> {"typed", "type"}
      [] a = "Navigated" -> {"Navigated"}
      [] a = "navigated" -> {"navigated", "navigate"}
      [] a = "Searched" -> {"Searched"}
      [] a = "searched" -> {"searched"}
      [] a = "Scrolled" -> {}
      [] a = "scrolled" -> {"scroll"}
      [] a = "role=dialog" -> {"role=dialog", "dialog"}
      [] a = "role=alertdialog" -> {"role=alertdialog", "dialog"}
      [] a = "modal" -> {"modal"}
      [] a = "dialog" -> {"dialog"}
      [] a = "input" -> {"input"}
      [] OTHER -> {}

\* Python: needle in text
Contains(text, needle) ==
    \E i \in 1..Len(text) : needle \in SubstringsOf(text[i])

\* Python: text.lower()
LowerText(text) == [i \in 1..Len(text) |-> Lower(text[i])]

\* len() of one word
AtomLen(a) ==
    CASE a = LongText -> LongLen
      [] a \in {"Navigated"} -> 9
      [] a \in {"Searched", "Scrolled"} -> 8
      [] a \in {"Clicked", "clicked", "CLICKED"} -> 7
      [] a \in {"button", "dialog"} -> 6
      [] a \in {"Typed", "Input", "Modal", "modal"} -> 5
      [] a \in {"Done", "link"} -> 4
      [] a \in {"ROLE=DIALOG", "role=dialog"} -> 11
      [] a = "role=alertdialog" -> 16
      [] OTHER -> 1

\* len(text): the words are separated by single spaces
RECURSIVE TextLen(_)
TextLen(text) ==
    IF text = <<>> THEN 0
    ELSE AtomLen(text[1]) + (IF Len(text) > 1 THEN 1 + TextLen(Tail(text)) ELSE 0)

Min(a, b) == IF a <= b THEN a ELSE b

----------------------------------------------------------------------------
(* BrowserStateSummary samples (the engine's state snapshot).              *)

DomState(present, nsel, text) ==
    [dom_state |-> present, selector_map |-> nsel, text |-> text]

NoDom == DomState(FALSE, 0, <<>>)                        \* state.dom_state is None
EmptyMapDom == DomState(TRUE, 0, <<"dialog">>)           \* empty selector_map
PlainDom == DomState(TRUE, 1, <<"button", "link">>)
UpperDialogDom == DomState(TRUE, 1, <<"ROLE=DIALOG">>)   \* upper-case marker
AlertDom == DomState(TRUE, 1, <<"button", "role=alertdialog">>)
ModalDom == DomState(TRUE, 1, <<"Modal">>)

DomSamples == {NoDom, EmptyMapDom, PlainDom, UpperDialogDom, AlertDom, ModalDom}
RunDomSamples == {NoDom, PlainDom, ModalDom}

BrowserStateSummary(u, shot, dom) == [url |-> u, screenshot |-> shot, dom |-> dom]

PolicyStates == {BrowserStateSummary(u, TRUE, d) : u \in Urls, d \in DomSamples}
RunStates == {BrowserStateSummary(u, s, d) :
                  u \in Urls, s \in BOOLEAN, d \in RunDomSamples}

----------------------------------------------------------------------------
(* StateCapture (the Step Recorder and the Capture Policy)                 *)

\* StateCapture.__init__
StateCaptureInit(dir) ==
    [output_dir |-> dir, step_index |-> 0, previous_url |-> NoneUrl]

modal_indicators == {"role=dialog", "role=alertdialog", "modal", "dialog"}

\* StateCapture._has_modal_or_dialog
has_modal_or_dialog(state) ==
    IF ~state.dom.dom_state \/ state.dom.selector_map = 0
    THEN FALSE
    ELSE \E indicator \in modal_indicators :
             Contains(LowerText(state.dom.text), indicator)

\* a mutant of should_capture: the NAVIGATE rule is lost
should_capture_NoNavigate(v, rec, state, is_initial, is_final, action) ==
    IF is_initial \/ is_final THEN TRUE
    ELSE IF rec.previous_url # NoneUrl /\ state.url # rec.previous_url THEN TRUE
    ELSE IF v = "A" /\ has_modal_or_dialog(state) THEN TRUE
    ELSE IF IsSome(action) /\ Get(action).type \in {CLICK, TYPE} THEN TRUE
    ELSE FALSE

\* a mutant of should_capture: the action rule also fires without an action
should_capture_ActionOptional(v, rec, state, is_initial, is_final, action) ==
    IF is_initial \/ is_final THEN TRUE
    ELSE IF rec.previous_url # NoneUrl /\ state.url # rec.previous_url THEN TRUE
    ELSE IF v = "A" /\ has_modal_or_dialog(state) THEN TRUE
    ELSE IF ~IsSome(action) \/ Get(action).type \in {CLICK, TYPE, NAVIGATE} THEN TRUE
    ELSE FALSE

\* StateCapture.should_capture: the value returned
should_capture(v, rec, state, is_initial, is_final, action) ==
    IF v = "A"
    THEN IF is_initial THEN TRUE
         ELSE IF is_final THEN TRUE
         ELSE IF rec.previous_url # NoneUrl /\ state.url # rec.previous_url THEN TRUE
         ELSE IF has_modal_or_dialog(state) THEN TRUE
         ELSE IF IsSome(action) /\ Get(action).type \in {CLICK, TYPE} THEN TRUE
         ELSE IF IsSome(action) /\ Get(action).type = NAVIGATE THEN TRUE
         ELSE FALSE
    ELSE IF is_initial \/ is_final THEN TRUE
         ELSE IF rec.previous_url # NoneUrl /\ state.url # rec.previous_url THEN TRUE
         ELSE IF IsSome(action) /\ Get(action).type \in {CLICK, TYPE, NAVIGATE} THEN TRUE
         ELSE FALSE

\* StateCapture.should_capture: the return statement that is reached
\* (1 initial/final, 2 URL change, 3 modal/dialog, 4 action, 5 return False)
fired_rule(v, rec, state, is_initial, is_final, action) ==
    IF is_initial \/ is_final THEN 1
    ELSE IF rec.previous_url # NoneUrl /\ state.url # rec.previous_url THEN 2
    ELSE IF v = "A" /\ has_modal_or_dialog(state) THEN 3
    ELSE IF IsSome(action) /\ Get(action).type \in {CLICK, TYPE, NAVIGATE} THEN 4
    ELSE 5

\* a mutant of should_capture_self: the policy remembers the URL it was shown
should_capture_self_Remembers(rec, state) ==
    [rec EXCEPT !.previous_url = state.url]

\* StateCapture.should_capture: the recorder after the call (no attribute of
\* self is assigned in its body)
should_capture_self(rec, state) == rec

\* Python truthiness of an Optional[str]
Truthy(u) == u # NoneUrl /\ u # ""

\* StateCapture.capture_step, line "has_unique_url = ..."
has_unique_url(rec, state) ==
    IF Truthy(rec.previous_url) THEN state.url # rec.previous_url ELSE TRUE

\* StateCapture._save_screenshot: raises ValueError when there is no payload
save_screenshot_raises(state) == ~state.screenshot

\* a mutant of capture_step_self: the cursor is not advanced
capture_step_self_NoAdvance(rec, state) == [rec EXCEPT !.previous_url = state.url]

\* a mutant of capture_step_self: previous_url is not updated
capture_step_self_KeepsUrl(rec, state) == [rec EXCEPT !.step_index = rec.step_index + 1]

\* StateCapture.capture_step: the recorder after a successful call
capture_step_self(rec, state) ==
    [rec EXCEPT !.previous_url = state.url, !.step_index = rec.step_index + 1]

\* StateCapture.capture_step: the Step built by a successful call
capture_step(rec, state, action) ==
    [step_index |-> rec.step_index,
     url |-> state.url,
     has_unique_url |-> has_unique_url(rec, state),
     action_from_previous |-> action]

\* a mutant of capture_step_after: the cursor is advanced before the
\* screenshot is saved
capture_step_after_UpdatesFirst(rec, state) == capture_step_self(rec, state)

\* StateCapture.capture_step: the recorder after any call (the ValueError of
\* _save_screenshot leaves the method before its assignments to self)
capture_step_after(rec, state) ==
    IF save_screenshot_raises(state) THEN rec ELSE capture_step_self(rec, state)

\* StateCapture._save_screenshot: the .png files of the directory after the
\* call (the raise precedes write_bytes)
save_screenshot(png, state, step_index) ==
    IF save_screenshot_raises(state) THEN png ELSE png \cup {step_index}

----------------------------------------------------------------------------
(* The automation engine (browser-use Agent) as the wrappers see it.       *)

ActionResult(done, text) == [is_done |-> done, extracted_content |-> text]

\* an action object of the engine's model output: its class name, its
\* declared field set and its index attribute
ActionObject(cls, fields, idx, url, text_len) ==
    [class_name |-> cls, fields |-> fields, index |-> idx,
     url |-> url,             \* action.url: "none", "ok" or "malformed"
     text_len |-> text_len]   \* len(action.text), 0 when there is none

ActionShape(cls, fields, idx) == ActionObject(cls, fields, idx, "none", 0)

ClickShape == ActionShape("ClickElementAction", {"index", "coordinate_x", "coordinate_y"}, 3)
ScrollShape == ActionShape("ScrollAction", {"down", "pages"}, NoIndex)
InputShape == ActionObject("InputTextAction", {"index", "text", "clear"}, 3, "none", LongLen)
NavigateShape(url) == ActionObject("GoToUrlAction", {"url", "new_tab"}, NoIndex, url, 0)
DoneShape == ActionObject("DoneAction", {"text", "success"}, NoIndex, "none", 4)

\* needles of the code that occur in the class name (case-sensitive)
ClassSubstrings(cls) ==
    CASE cls = "ClickElementAction" -> {"ClickElement"}
      [] cls = "InputTextAction" -> {"InputText"}
      [] cls = "GoToUrlAction" -> {"GoToUrl"}
      [] cls = "NavigateAction" -> {"Navigate"}
      [] cls = "ScrollAction" -> {"Scroll"}
      [] cls = "SearchAction" -> {"Search"}
      [] cls = "ExtractAction" -> {"Extract"}
      [] OTHER -> {}

\* needles of the code that occur in type(action).__name__.lower()
ClassLowerSubstrings(cls) ==
    CASE cls = "ClickElementAction" -> {"click"}
      [] cls = "InputTextAction" -> {"input"}
      [] cls = "GoToUrlAction" -> {"goto"}
      [] cls = "NavigateAction" -> {"navigate"}
      [] cls = "ScrollAction" -> {"scroll"}
      [] cls = "SearchAction" -> {"search"}
      [] cls = "ExtractAction" -> {"extract"}
      [] OTHER -> {}

\* agent.state after agent.step(): last_result and last_model_output
\* (None and the empty list are both the empty sequence: the code only
\* tests their truth value)
EngineState(res, out) == [last_result |-> res, last_model_output |-> out]

FreshEngine == EngineState(<<>>, <<>>)

StepResults == { <<>>,
                 <<ActionResult(FALSE, <<"Clicked", "link">>)>>,
                 <<ActionResult(TRUE, <<"Done">>)>> }
StepModelOutputs == { <<>>, <<ClickShape>>, <<ScrollShape>> }
EngineOutputs == {EngineState(r, o) : r \in StepResults, o \in StepModelOutputs}

----------------------------------------------------------------------------
(* BrowserAgentWrapper (variant A) / BrowserAgent (variant B)              *)

\* self.agent_wrapper is None
NoWrapper ==
    [exists |-> FALSE, agent |-> FALSE,
     last_action_result |-> <<>>, last_extracted_content |-> <<>>]

\* __init__: a wrapper object whose agent is not yet created
NewWrapper ==
    [exists |-> TRUE, agent |-> FALSE,
     last_action_result |-> <<>>, last_extracted_content |-> <<>>]

Last(seq) == seq[Len(seq)]

\* step(): what the wrapper remembers after agent.step() returned
wrapper_step(v, w, eng) ==
    IF v = "A"
    THEN IF Len(eng.last_result) > 0
         THEN [w EXCEPT !.last_action_result = eng.last_result,
                        !.last_extracted_content = Last(eng.last_result).extracted_content]
         ELSE w
    ELSE [w EXCEPT !.last_action_result = eng.last_result,
                   !.last_extracted_content =
                       IF Len(eng.last_result) > 0
                       THEN Last(eng.last_result).extracted_content
                       ELSE <<>>]

\* variant A, the extracted_content branch of get_last_action
text_action_A(extracted) ==
    IF Contains(extracted, "Clicked") \/ Contains(extracted, "clicked")
    THEN Some(ActionFromPrevious(CLICK, NoIndex))
    ELSE IF Contains(extracted, "Typed") \/ Contains(extracted, "typed")
    THEN Some(ActionFromPrevious(TYPE, NoIndex))
    ELSE IF Contains(extracted, "Navigated") \/ Contains(extracted, "navigated")
    THEN Some(ActionFromPrevious(NAVIGATE, NoIndex))
    ELSE IF Contains(extracted, "Searched") \/ Contains(extracted, "searched")
    THEN Some(ActionFromPrevious(OTHER_, NoIndex))
    ELSE None

\* variant A, action_type_name inferred from model_fields
type_name_A(fields) ==
    IF {"index", "coordinate_x"} \subseteq fields THEN "click"
    ELSE IF {"text", "index", "clear"} \subseteq fields THEN "input"
    ELSE IF "url" \in fields THEN "navigate"
    ELSE IF {"down", "pages"} \subseteq fields THEN "scroll"
    ELSE IF {"query", "engine"} \subseteq fields THEN "search"
    ELSE IF {"query", "extract_links"} \subseteq fields THEN "extract"
    ELSE "none"

\* variant A, the if/elif chain of the loop over the actions
branch_A(a) ==
    LET tn == type_name_A(a.fields)
        lo == ClassLowerSubstrings(a.class_name)
        cs == ClassSubstrings(a.class_name)
    IN  IF tn = "click" \/ "click" \in lo \/ "ClickElement" \in cs THEN "click"
        ELSE IF tn = "input" \/ "type" \in lo \/ "input" \in lo \/ "InputText" \in cs
        THEN "input"
        ELSE IF tn = "navigate" \/ "navigate" \in lo \/ "goto" \in lo
                \/ "Navigate" \in cs \/ "GoToUrl" \in cs
        THEN "navigate"
        ELSE IF tn = "scroll" \/ "scroll" \in lo \/ "Scroll" \in cs THEN "scroll"
        ELSE IF tn = "search" \/ "search" \in lo \/ "Search" \in cs THEN "search"
        ELSE IF tn = "extract" \/ "extract" \in lo \/ "Extract" \in cs THEN "extract"
        ELSE "else"

\* variant A, the loop over the actions: acc is (action_type, element_index)
RECURSIVE fold_actions_A(_, _, _)
fold_actions_A(actions, i, acc) ==
    IF i > Len(actions) THEN acc
    ELSE LET a == actions[i]
             b == branch_A(a)
             nxt == CASE b = "click" ->
                            [type |-> CLICK,
                             element_index |-> IF a.index # NoIndex THEN a.index
                                               ELSE acc.element_index]
                      [] b = "input" -> [acc EXCEPT !.type = TYPE]
                      [] b = "navigate" -> [acc EXCEPT !.type = NAVIGATE]
                      [] b = "scroll" -> [acc EXCEPT !.type = SCROLL]
                      [] OTHER -> acc
         IN  fold_actions_A(actions, i + 1, nxt)

\* variant B, _detect_type_from_text
detect_type_from_text(text) ==
    LET lo == LowerText(text)
    IN  IF Contains(lo, "click") THEN Some(CLICK)
        ELSE IF Contains(lo, "type") \/ Contains(lo, "input") THEN Some(TYPE)
        ELSE IF Contains(lo, "navigate") \/ Contains(lo, "goto") THEN Some(NAVIGATE)
        ELSE IF Contains(lo, "scroll") THEN Some(SCROLL)
        ELSE None

\* variant B, _detect_type_from_action
detect_type_from_action(a) ==
    LET lo == ClassLowerSubstrings(a.class_name)
    IN  IF {"index", "coordinate_x"} \subseteq a.fields THEN CLICK
        ELSE IF {"text", "index"} \subseteq a.fields THEN TYPE
        ELSE IF "url" \in a.fields THEN NAVIGATE
        ELSE IF {"down", "pages"} \subseteq a.fields THEN SCROLL
        ELSE IF "click" \in lo THEN CLICK
        ELSE IF "type" \in lo \/ "input" \in lo THEN TYPE
        ELSE IF "navigate" \in lo \/ "goto" \in lo THEN NAVIGATE
        ELSE IF "scroll" \in lo THEN SCROLL
        ELSE OTHER_

\* get_last_action: Optional[ActionFromPrevious]
get_last_action(v, w, eng) ==
    IF v = "A"
    THEN LET fromText ==
                 IF Len(w.last_action_result) > 0
                    /\ Len(Last(w.last_action_result).extracted_content) > 0
                 THEN text_action_A(Last(w.last_action_result).extracted_content)
                 ELSE None
         IN  IF IsSome(fromText) THEN fromText
             ELSE IF ~w.agent \/ Len(eng.last_model_output) = 0 THEN None
             ELSE Some(fold_actions_A(eng.last_model_output, 1,
                                      [type |-> OTHER_, element_index |-> NoIndex]))
    ELSE LET fromText ==
                 IF Len(w.last_extracted_content) > 0
                 THEN detect_type_from_text(w.last_extracted_content)
                 ELSE None
         IN  IF IsSome(fromText) THEN Some(ActionFromPrevious(Get(fromText), NoIndex))
             ELSE IF ~w.agent \/ Len(eng.last_model_output) = 0 THEN None
             ELSE Some(ActionFromPrevious(
                           detect_type_from_action(eng.last_model_output[1]),
                           eng.last_model_output[1].index))

\* the free text get_last_action consults: variant A reads it from the
\* stored result list, variant B from _last_extracted_content
consulted_text(v, w) ==
    IF v = "A"
    THEN IF Len(w.last_action_result) > 0
         THEN Last(w.last_action_result).extracted_content
         ELSE <<>>
    ELSE w.last_extracted_content

\* get_last_action returned from its extracted-content branch
returns_from_text(v, w) ==
    IF v = "A"
    THEN IsSome(text_action_A(consulted_text(v, w)))
    ELSE IsSome(detect_type_from_text(consulted_text(v, w)))

\* get_last_action as it behaves when the text branch returns nothing
structural_action(v, w, eng) ==
    get_last_action(v, [w EXCEPT !.last_action_result = <<>>,
                                 !.last_extracted_content = <<>>], eng)

\* urlparse(url) raises ValueError ("Invalid IPv6 URL")
urlparse_raises(url) == url = "malformed"

\* get_last_action raises: variant A parses the URL of a navigate action
\* outside any try; variant B parses nothing
get_last_action_raises(v, w, eng) ==
    /\ v = "A"
    /\ ~returns_from_text(v, w)
    /\ w.agent
    /\ \E i \in 1..Len(eng.last_model_output) :
           /\ branch_A(eng.last_model_output[i]) = "navigate"
           /\ urlparse_raises(eng.last_model_output[i].url)

\* len(str(n)) for an element index
Digits(n) == IF n < 10 THEN 1 ELSE IF n < 100 THEN 2 ELSE 3

\* variant A: len() of the description appended for one action; elem_len is
\* the length of _get_element_description's result (0 = None, at most 50)
action_desc_len_A(a, elem_len) ==
    LET b == branch_A(a)
    IN  CASE b = "click" ->
                 IF a.index # NoIndex
                 THEN IF elem_len > 0 THEN 11 + elem_len ELSE 26 + Digits(a.index)
                 ELSE IF {"coordinate_x", "coordinate_y"} \subseteq a.fields THEN 33
                 ELSE 16
          [] b = "input" ->
                 IF a.text_len > 0 /\ a.index # NoIndex
                 THEN IF elem_len > 0 THEN 15 + a.text_len + elem_len
                      ELSE 30 + a.text_len + Digits(a.index)
                 ELSE IF a.text_len > 0 THEN 7 + a.text_len
                 ELSE 9
          [] b = "navigate" -> IF a.url = "none" THEN 16 ELSE 23
          [] b = "scroll" -> 11
          [] b = "search" -> IF a.text_len > 0 THEN 13 + a.text_len ELSE 6
          [] b = "extract" -> 19
          [] OTHER -> 14

\* variant A: len("; ".join(action_descriptions))
RECURSIVE joined_len_A(_, _, _)
joined_len_A(actions, i, elem_len) ==
    IF i > Len(actions) THEN 0
    ELSE action_desc_len_A(actions[i], elem_len)
         + (IF i < Len(actions) THEN 2 + joined_len_A(actions, i + 1, elem_len) ELSE 0)

\* len(action_type.value)
TypeValueLen(t) ==
    CASE t = NAVIGATE -> 8
      [] t = SCROLL -> 6
      [] t \in {CLICK, OTHER_} -> 5
      [] OTHER -> 4

\* len(description) of the ActionFromPrevious that get_last_action returns
\* (the sample texts hold no quote character and no "Clicked a " prefix, so
\* variant A's text branch uses the extracted content as it is)
description_len(v, w, eng, elem_len) ==
    IF v = "A"
    THEN IF returns_from_text(v, w) THEN TextLen(consulted_text(v, w))
         ELSE joined_len_A(eng.last_model_output, 1, elem_len)
    ELSE IF returns_from_text(v, w) THEN Min(TextLen(consulted_text(v, w)), 100)
         ELSE Min(TypeValueLen(detect_type_from_action(eng.last_model_output[1])) + 7, 100)

\* is_done
is_done(w, eng) ==
    IF ~w.agent THEN FALSE
    ELSE \E i \in 1..Len(eng.last_result) : eng.last_result[i].is_done

\* close
close(w) == [w EXCEPT !.agent = FALSE, !.last_action_result = <<>>]

----------------------------------------------------------------------------
(* TaskRun, the output directory and the pieces of TaskRunner.run          *)

\* self.task_run is None
NoTaskRun == [status |-> "none", end_time |-> FALSE, total_steps |-> 0]

\* TaskRun(task_id=..., status=TaskStatus.IN_PROGRESS, ...)
NewTaskRun == [status |-> IN_PROGRESS, end_time |-> FALSE, total_steps |-> 0]

Dirs == 1..MaxRuns

EmptyDir == [png |-> {}, json |-> {}, metadata |-> None, tutorial |-> FALSE]

\* _save_screenshot: screenshot_path.write_bytes
write_png(d, dir, idx) == [d EXCEPT ![dir].png = @ \cup {idx}]

\* DatasetWriter.save_step / OutputManager.save_step
save_step(d, dir, step) == [d EXCEPT ![dir].json = @ \cup {step.step_index}]

\* DatasetWriter.save_task_metadata / OutputManager.save_task_metadata
save_task_metadata(d, dir, tr) ==
    [d EXCEPT ![dir].metadata =
        Some([status |-> tr.status, end_time |-> tr.end_time,
              total_steps |-> tr.total_steps])]

\* generate_tutorial: tutorial.md written
write_tutorial(d, dir) == [d EXCEPT ![dir].tutorial = TRUE]

\* a mutant of first_iteration_override: the loop variable is taken to
\* start at 0
first_iteration_override_ZeroBased(n) == n = 0

\* a mutant of first_iteration_override: iteration 1 is left to the policy
first_iteration_override_Never(n) == FALSE

\* should_capture = (step_num == 1) or self.state_capture.should_capture(...)
first_iteration_override(n) == n = 1

\* a mutant of loop_continues: the range runs one iteration too far
loop_continues_OneMore(n, budget) == n <= budget + 1

\* for step_num in range(1, self.max_steps + 1)
loop_continues(n, budget) == n <= budget

\* a mutant of except_handler: the status is left as it was
except_handler_Keeps(tr) == tr

\* except Exception: self.task_run.status = TaskStatus.FAILURE; raise
except_handler(tr) == [tr EXCEPT !.status = FAILURE]

\* a mutant of status_after_loop: the guard on IN_PROGRESS is lost
status_after_loop_Always(tr) == [tr EXCEPT !.status = TIMEOUT]

\* if self.task_run.status == TaskStatus.IN_PROGRESS: status = TIMEOUT
status_after_loop(tr) ==
    IF tr.status = IN_PROGRESS THEN [tr EXCEPT !.status = TIMEOUT] ELSE tr

\* a mutant of finalize_record: total_steps is not updated
finalize_record_NoCount(tr, stepList) == [tr EXCEPT !.end_time = TRUE]

\* finally: end_time = now(); total_steps = len(self.steps)
finalize_record(tr, stepList) ==
    [tr EXCEPT !.end_time = TRUE, !.total_steps = Len(stepList)]

\* sorted(steps, key=lambda s: s.step_index): stable insertion sort
RECURSIVE InsertSorted(_, _)
InsertSorted(sorted, x) ==
    IF sorted = <<>> THEN <<x>>
    ELSE IF Last(sorted).step_index <= x.step_index THEN Append(sorted, x)
    ELSE Append(InsertSorted(SubSeq(sorted, 1, Len(sorted) - 1), x), Last(sorted))

RECURSIVE SortedByIndex(_)
SortedByIndex(stepList) ==
    IF stepList = <<>> THEN <<>>
    ELSE InsertSorted(SortedByIndex(SubSeq(stepList, 1, Len(stepList) - 1)),
                      Last(stepList))

\* TutorialEnhancer.enhance_all_steps: the list returned
enhance_all_steps(stepList) == SortedByIndex(stepList)

\* for enhanced_step in enhanced_steps: save_step(task_dir, enhanced_step)
RECURSIVE save_all_steps(_, _, _)
save_all_steps(d, dir, stepList) ==
    IF stepList = <<>> THEN d
    ELSE save_all_steps(save_step(d, dir, stepList[1]), dir, Tail(stepList))

Changed(old, new) == IF old # new THEN 1 ELSE 0

\* one loop iteration as run() saw it: the state's URL, the classified
\* action, the return statement of should_capture that was reached (0 when
\* the policy was not asked) and whether a Step was appended
Iter(url, action, rule, captured) ==
    [seen |-> TRUE, url |-> url, action |-> action, rule |-> rule, captured |-> captured]

\* no iteration yet, or get_state() raised in the latest one
NoIter == [seen |-> FALSE]

\* per-run observations, reset by each run() call
NewObs(nSteps) ==
    [steps_at_start |-> nSteps,    \* len(self.steps) when run() was entered
     captured |-> 0,               \* steps appended by this run
     step_calls |-> 0,             \* agent_wrapper.step() calls
     get_state_calls |-> 0,        \* agent_wrapper.get_state() calls
     step_failed |-> FALSE,        \* a step() call raised
     calls_after_failure |-> 0,    \* step()/get_state() calls after that
     status_changes |-> 0,         \* assignments that changed task_run.status
     done_seen |-> FALSE,          \* an is_done() check returned True
     loop_exit |-> "none",         \* "break", "exhausted" or "error"
     finalize_count |-> 0,         \* executions of the finally block
     wrapper_created |-> FALSE,    \* the wrapper constructor returned
     close_calls |-> 0,            \* agent_wrapper.close() calls
     enhance_failed |-> FALSE,     \* variant A: the LLM enhancement raised
     tutorial_failed |-> FALSE,    \* generate_tutorial raised
     first_decision |-> "none",    \* iteration 1: "captured", "skipped" or "raised"
     first_policy |-> FALSE,       \* iteration 1: what should_capture would return
     first_action |-> FALSE,       \* iteration 1: an action was classified
     first_shot |-> FALSE,         \* iteration 1: get_state() returned a screenshot
     final_captures |-> 0,         \* forced captures after is_done()
     construct_failed |-> FALSE,   \* the wrapper constructor raised
     overwrote |-> FALSE,          \* a capture replaced a step file already on disk
     iter |-> NoIter,              \* what the latest loop iteration observed and did
     shot_seen |-> FALSE,          \* get_state() has returned a state with a screenshot
     observed_url |-> NoneUrl,     \* URL of the state get_state() returned last
     last_event |-> "none"]

----------------------------------------------------------------------------
(* Two TaskRunner instances built with the same output_base_dir (the       *)
(* default is Path("outputs")), as far as the output directory goes.       *)

Runners == {"r1", "r2"}

\* datetime.now().strftime("%Y-%m-%d_%H-%M"): the name is the minute
timestamp(minute) == minute

\* directory names under the base directory
ConcDirs == 1..MaxMinutes

\* DatasetWriter.create_task_directory: base_output_dir / timestamp, with
\* mkdir(parents=True, exist_ok=True): an existing directory is reused
create_task_directory(created, ts) == ts

\* f"step_{step_index:03d}": the .png and the .json of a step share the stem
step_file(i) ==
    CASE i = 0 -> "step_000"
      [] i = 1 -> "step_001"
      [] i = 2 -> "step_002"
      [] OTHER -> "step_003"

ConcFileNames ==
    {"task_metadata.json"} \cup {step_file(i) : i \in 0..(MaxConcSteps - 1)}

\* a directory's files, each with the runner that wrote it last ("" = absent)
NoFiles == [f \in ConcFileNames |-> ""]

NoRunner == [pc |-> "idle", task_dir |-> 0, step_index |-> 0]

ConcIdle ==
    [minute |-> 1,
     runner |-> [r \in Runners |-> NoRunner],
     files |-> [d \in ConcDirs |-> NoFiles],
     created |-> {},         \* directories that exist
     shared |-> FALSE,       \* a runner was handed a directory in use
     clobbered |-> FALSE]    \* a file of another runner was replaced

----------------------------------------------------------------------------
(* TaskRunner.run / TaskRunner._run_async                                  *)

\* a TaskRunner as its constructor leaves it
Constructed ==
    /\ variant \in {"A", "B"}
    /\ pc = "idle"
    /\ runNo = 0
    /\ task_run = NoTaskRun
    /\ task_dir = 0
    /\ steps = <<>>
    /\ sc = StateCaptureInit(0)
    /\ wrapper = NoWrapper
    /\ engine = FreshEngine
    /\ step_num = 0
    /\ exc = FALSE
    /\ outcome = "none"
    /\ disk = [dir \in Dirs |-> EmptyDir]
    /\ h = NewObs(0)
    /\ pol = [called |-> FALSE]
    /\ conc = ConcIdle
    /\ clf = [called |-> FALSE]
    /\ cap = [called |-> FALSE]
    /\ ui = [constructed |-> FALSE]
    /\ life = [constructed |-> FALSE]

\* the caller invokes run() once
Init ==
    /\ Constructed
    /\ max_steps \in 0..MaxStepsBudget
    /\ run_limit = 1

\* an exception leaves the try block: except handler, then the finally block
RaiseInTry(event, obs) ==
    /\ task_run' = except_handler(task_run)
    /\ exc' = TRUE
    /\ pc' = "finalize"
    /\ h' = [obs EXCEPT !.loop_exit = "error",
                        !.last_event = event,
                        !.status_changes =
                            @ + Changed(task_run.status, except_handler(task_run).status)]

\* run(): lines up to the try statement.  The directory is named by the
\* wall-clock minute, which has or has not advanced since the previous run.
Run ==
    /\ pc \in {"idle", "end"}
    /\ runNo < run_limit
    /\ \E ts \in (IF task_dir = 0 THEN {1} ELSE {task_dir, task_dir + 1}) :
           /\ task_dir' = ts
           /\ sc' = StateCaptureInit(ts)
    /\ runNo' = runNo + 1
    /\ task_run' = NewTaskRun
    /\ pc' = "construct"
    /\ step_num' = 0
    /\ exc' = FALSE
    /\ outcome' = "running"
    /\ h' = NewObs(Len(steps))
    /\ UNCHANGED <<variant, max_steps, run_limit, steps, wrapper, engine, disk, pol, conc, clf, cap, ui, life>>

\* self.agent_wrapper = BrowserAgentWrapper(...): ValueError when a key is
\* missing from the environment
ConstructWrapper(keys_present) ==
    /\ pc = "construct"
    /\ IF keys_present
       THEN /\ wrapper' = NewWrapper
            /\ pc' = "initialize"
            /\ h' = [h EXCEPT !.wrapper_created = TRUE, !.last_event = "constructed"]
            /\ UNCHANGED <<task_run, exc>>
       ELSE /\ RaiseInTry("construct_failed", [h EXCEPT !.construct_failed = TRUE])
            /\ UNCHANGED wrapper
    /\ UNCHANGED <<variant, max_steps, runNo, run_limit, task_dir, steps, sc, engine,
                   step_num, outcome, disk, pol, conc, clf, cap, ui, life>>

\* await self.agent_wrapper.initialize()
InitializeWrapper(result) ==
    /\ pc = "initialize"
    /\ CASE result = "ok" ->
              /\ wrapper' = [wrapper EXCEPT !.agent = TRUE]
              /\ engine' = FreshEngine
              /\ pc' = "loop"
              /\ step_num' = 1
              /\ h' = [h EXCEPT !.last_event = "initialized"]
              /\ UNCHANGED <<task_run, exc>>
         [] result = "raises_before_agent" ->
              /\ RaiseInTry("initialize_failed", h)
              /\ UNCHANGED <<wrapper, engine, step_num>>
         [] result = "raises_after_agent" ->
              /\ wrapper' = [wrapper EXCEPT !.agent = TRUE]
              /\ engine' = FreshEngine
              /\ RaiseInTry("initialize_failed", h)
              /\ UNCHANGED step_num
    /\ UNCHANGED <<variant, max_steps, runNo, run_limit, task_dir, steps, sc,
                   outcome, disk, pol, conc, clf, cap, ui, life>>

CountCall(obs) ==
    IF obs.step_failed
    THEN [obs EXCEPT !.calls_after_failure = @ + 1]
    ELSE obs

\* await self.agent_wrapper.step() returns
AgentStepReturns(eng) ==
    /\ pc = "loop"
    /\ loop_continues(step_num, max_steps)
    /\ engine' = eng
    /\ wrapper' = wrapper_step(variant, wrapper, eng)
    /\ pc' = "get_state"
    /\ h' = [CountCall(h) EXCEPT !.step_calls = @ + 1, !.last_event = "step"]
    /\ UNCHANGED <<variant, max_steps, runNo, run_limit, task_run, task_dir, steps, sc,
                   step_num, exc, outcome, disk, pol, conc, clf, cap, ui, life>>

\* await self.agent_wrapper.step() raises: printed and re-raised
AgentStepRaises ==
    /\ pc = "loop"
    /\ loop_continues(step_num, max_steps)
    /\ RaiseInTry("step_failed",
                  [CountCall(h) EXCEPT !.step_calls = @ + 1, !.step_failed = TRUE])
    /\ UNCHANGED <<variant, max_steps, runNo, run_limit, task_dir, steps, sc, wrapper,
                   engine, step_num, outcome, disk, pol, conc, clf, cap, ui, life>>

\* the for loop ends without break; "if status == IN_PROGRESS: TIMEOUT"
LoopExhausted ==
    /\ pc = "loop"
    /\ ~loop_continues(step_num, max_steps)
    /\ task_run' = status_after_loop(task_run)
    /\ pc' = "finalize"
    /\ h' = [h EXCEPT !.loop_exit = "exhausted",
                      !.last_event = "exhausted",
                      !.status_changes =
                          @ + Changed(task_run.status, status_after_loop(task_run).status)]
    /\ UNCHANGED <<variant, max_steps, runNo, run_limit, task_dir, steps, sc, wrapper,
                   engine, step_num, exc, outcome, disk, pol, conc, clf, cap, ui, life>>

\* current_state = await get_state() raises: printed, "continue"
GetStateRaises ==
    /\ pc = "get_state"
    /\ pc' = "loop"
    /\ step_num' = step_num + 1
    /\ h' = [CountCall(h) EXCEPT !.get_state_calls = @ + 1,
                                 !.iter = NoIter,
                                 !.last_event = "get_state_failed"]
    /\ UNCHANGED <<variant, max_steps, runNo, run_limit, task_run, task_dir, steps, sc,
                   wrapper, engine, exc, outcome, disk, pol, conc, clf, cap, ui, life>>

\* current_state = await get_state() returns; then the rest of the iteration
\* up to the next suspension point (classify, policy, capture, is_done)
GetStateReturns(state) ==
    /\ pc = "get_state"
    /\ LET last_action == get_last_action(variant, wrapper, engine)
           asked == ~first_iteration_override(step_num)   \* "or" short-circuits
           decide == IF asked
                     THEN should_capture(variant, sc, state, FALSE, FALSE, last_action)
                     ELSE TRUE
           rec == IF asked THEN should_capture_self(sc, state) ELSE sc
           policy == should_capture(variant, sc, state, FALSE, FALSE, last_action)
           first(o, d) == IF step_num = 1
                          THEN [o EXCEPT !.first_decision = d,
                                         !.first_policy = policy,
                                         !.first_action = IsSome(last_action),
                                         !.first_shot = state.screenshot]
                          ELSE o
           rule == IF asked
                   THEN fired_rule(variant, sc, state, FALSE, FALSE, last_action)
                   ELSE 0
           obs == [CountCall(h) EXCEPT
                      !.get_state_calls = @ + 1,
                      !.shot_seen = @ \/ state.screenshot,
                      !.observed_url = state.url,
                      !.iter = Iter(state.url, last_action, rule,
                                    decide /\ ~save_screenshot_raises(state))]
       IN  IF decide /\ save_screenshot_raises(state)
           THEN /\ RaiseInTry("missing_screenshot", first(obs, "raised"))
                /\ sc' = capture_step_after(rec, state)
                /\ UNCHANGED <<steps, disk, step_num>>
           ELSE LET step == capture_step(rec, state, last_action)
                IN  /\ sc' = IF decide THEN capture_step_self(rec, state) ELSE rec
                    /\ steps' = IF decide THEN Append(steps, step) ELSE steps
                    /\ disk' = IF decide
                               THEN save_step(write_png(disk, rec.output_dir, step.step_index),
                                              task_dir, step)
                               ELSE disk
                    /\ h' = [first(obs, IF decide THEN "captured" ELSE "skipped")
                               EXCEPT !.captured = IF decide THEN @ + 1 ELSE @,
                                      !.overwrote = @ \/ (decide /\ step.step_index
                                                              \in disk[rec.output_dir].png),
                                        !.done_seen = is_done(wrapper, engine),
                                        !.last_event = IF decide THEN "captured"
                                                       ELSE "skipped"]
                    /\ IF is_done(wrapper, engine)
                       THEN pc' = "final_state" /\ UNCHANGED step_num
                       ELSE pc' = "loop" /\ step_num' = step_num + 1
                    /\ UNCHANGED <<task_run, exc>>
    /\ UNCHANGED <<variant, max_steps, runNo, run_limit, task_dir, wrapper, engine,
                   outcome, pol, conc, clf, cap, ui, life>>

\* final_state = await get_state() raises (not guarded by a try)
FinalGetStateRaises ==
    /\ pc = "final_state"
    /\ RaiseInTry("get_state_failed",
                  [CountCall(h) EXCEPT !.get_state_calls = @ + 1])
    /\ UNCHANGED <<variant, max_steps, runNo, run_limit, task_dir, steps, sc, wrapper,
                   engine, step_num, outcome, disk, pol, conc, clf, cap, ui, life>>

\* final_state = await get_state() returns; forced capture, SUCCESS, break,
\* and the statement after the loop
FinalGetStateReturns(state) ==
    /\ pc = "final_state"
    /\ LET decide == should_capture(variant, sc, state, FALSE, TRUE, None)
           rec == should_capture_self(sc, state)
           last_action == get_last_action(variant, wrapper, engine)
           obs == [CountCall(h) EXCEPT !.get_state_calls = @ + 1,
                                       !.shot_seen = @ \/ state.screenshot,
                                       !.observed_url = state.url]
       IN  IF decide /\ save_screenshot_raises(state)
           THEN /\ RaiseInTry("missing_screenshot", obs)
                /\ sc' = capture_step_after(rec, state)
                /\ UNCHANGED <<steps, disk>>
           ELSE LET step == capture_step(rec, state, last_action)
                    succeeded == [task_run EXCEPT !.status = SUCCESS]
                IN  /\ sc' = IF decide THEN capture_step_self(rec, state) ELSE rec
                    /\ steps' = IF decide THEN Append(steps, step) ELSE steps
                    /\ disk' = IF decide
                               THEN save_step(write_png(disk, rec.output_dir, step.step_index),
                                              task_dir, step)
                               ELSE disk
                    /\ task_run' = status_after_loop(succeeded)
                    /\ pc' = "finalize"
                    /\ h' = [obs EXCEPT
                               !.captured = IF decide THEN @ + 1 ELSE @,
                               !.final_captures = IF decide THEN @ + 1 ELSE @,
                               !.overwrote = @ \/ (decide /\ step.step_index
                                                       \in disk[rec.output_dir].png),
                               !.loop_exit = "break",
                               !.last_event = "final_captured",
                               !.status_changes =
                                   @ + Changed(task_run.status, SUCCESS)
                                     + Changed(SUCCESS, status_after_loop(succeeded).status)]
                    /\ UNCHANGED exc
    /\ UNCHANGED <<variant, max_steps, runNo, run_limit, task_dir, wrapper, engine,
                   step_num, outcome, pol, conc, clf, cap, ui, life>>


\* the finally block up to its suspension point: metadata, enhancement
\* (variant A), tutorial
Finalize(enhance_ok, tutorial_ok) ==
    /\ pc = "finalize"
    /\ LET tr == finalize_record(task_run, steps)
           d1 == save_task_metadata(disk, task_dir, tr)
           obs == [h EXCEPT !.finalize_count = @ + 1, !.last_event = "finalized"]
       IN  /\ task_run' = tr
           /\ IF variant = "A"
              THEN LET enhanced == steps # <<>> /\ enhance_ok
                       d2 == IF enhanced
                             THEN save_all_steps(d1, task_dir, enhance_all_steps(steps))
                             ELSE d1
                       obs2 == [obs EXCEPT !.enhance_failed = (steps # <<>> /\ ~enhance_ok)]
                   IN  /\ steps' = IF enhanced THEN enhance_all_steps(steps) ELSE steps
                       /\ IF tutorial_ok
                          THEN /\ disk' = write_tutorial(d2, task_dir)
                               /\ pc' = "close"
                               /\ outcome' = outcome
                               /\ h' = obs2
                          ELSE \* generate_tutorial is outside any try: the
                               \* exception leaves run() from the finally block
                               /\ disk' = d2
                               /\ pc' = "end"
                               /\ outcome' = "raised"
                               /\ h' = [obs2 EXCEPT !.tutorial_failed = TRUE]
              ELSE /\ steps' = steps
                   /\ disk' = IF steps # <<>> /\ tutorial_ok
                              THEN write_tutorial(d1, task_dir)
                              ELSE d1
                   /\ pc' = "close"
                   /\ outcome' = outcome
                   /\ h' = [obs EXCEPT !.tutorial_failed = (steps # <<>> /\ ~tutorial_ok)]
    /\ UNCHANGED <<variant, max_steps, runNo, run_limit, task_dir, sc, wrapper, engine,
                   step_num, exc, pol, conc, clf, cap, ui, life>>

\* if self.agent_wrapper: await self.agent_wrapper.close(); then run()
\* returns self.task_run or the pending exception continues
Close ==
    /\ pc = "close"
    /\ IF wrapper.exists
       THEN /\ wrapper' = close(wrapper)
            /\ h' = [h EXCEPT !.close_calls = @ + 1, !.last_event = "closed"]
       ELSE /\ wrapper' = wrapper
            /\ h' = [h EXCEPT !.last_event = "not_closed"]
    /\ pc' = "end"
    /\ outcome' = IF exc THEN "raised" ELSE "returned"
    /\ UNCHANGED <<variant, max_steps, runNo, run_limit, task_run, task_dir, steps, sc,
                   engine, step_num, exc, disk, pol, conc, clf, cap, ui, life>>

Next ==
    \/ Run
    \/ \E keys_present \in BOOLEAN : ConstructWrapper(keys_present)
    \/ \E result \in {"ok", "raises_before_agent", "raises_after_agent"} :
           InitializeWrapper(result)
    \/ \E eng \in EngineOutputs : AgentStepReturns(eng)
    \/ AgentStepRaises
    \/ LoopExhausted
    \/ GetStateRaises
    \/ \E state \in RunStates : GetStateReturns(state)
    \/ FinalGetStateRaises
    \/ \E state \in RunStates : FinalGetStateReturns(state)
    \/ \E enhance_ok \in BOOLEAN, tutorial_ok \in BOOLEAN :
           Finalize(enhance_ok, tutorial_ok)
    \/ Close

Spec == Init /\ [][Next]_vars

\* the caller invokes run() again on the same TaskRunner
RerunInit ==
    /\ Constructed
    /\ max_steps \in 0..RerunBudget
    /\ run_limit = MaxRuns

RerunSpec == RerunInit /\ [][Next]_vars

\* one run() call in which every awaited call eventually returns or raises
\* (the loop has no wall-clock deadline of its own)
LiveSpec == Init /\ [][Next]_vars /\ WF_vars(Next)

----------------------------------------------------------------------------
(* PolicySpec: should_capture and capture_step of one StateCapture called  *)
(* directly, with every combination of inputs.                             *)

PolicyActions ==
    {None} \cup {Some(ActionFromPrevious(t, NoIndex)) : t \in ActionType}

PolicyInit ==
    /\ variant \in {"A", "B"}
    /\ max_steps = 0
    /\ run_limit = 0
    /\ pc = "idle"
    /\ runNo = 0
    /\ task_run = NoTaskRun
    /\ task_dir = 0
    /\ steps = <<>>
    /\ sc = StateCaptureInit(1)
    /\ wrapper = NoWrapper
    /\ engine = FreshEngine
    /\ step_num = 0
    /\ exc = FALSE
    /\ outcome = "none"
    /\ disk = [dir \in Dirs |-> EmptyDir]
    /\ h = NewObs(0)
    /\ pol = [called |-> FALSE]
    /\ conc = ConcIdle
    /\ clf = [called |-> FALSE]
    /\ cap = [called |-> FALSE]
    /\ ui = [constructed |-> FALSE]
    /\ life = [constructed |-> FALSE]

\* one call of should_capture
PolicyCall(state, is_initial, is_final, action) ==
    /\ pol' = [called |-> TRUE,
               state |-> state,
               is_initial |-> is_initial,
               is_final |-> is_final,
               action |-> action,
               rec_before |-> sc,
               result |-> should_capture(variant, sc, state, is_initial, is_final, action),
               rec_after |-> should_capture_self(sc, state),
               repeated |-> FALSE,
               repeat_result |-> FALSE]
    /\ sc' = should_capture_self(sc, state)
    /\ UNCHANGED <<variant, runVars, conc, clf, cap, ui, life>>

\* the same call again, later, with the same arguments and the same
\* previous URL in the recorder
PolicyRepeat ==
    /\ pol.called
    /\ sc.previous_url = pol.rec_before.previous_url
    /\ pol' = [pol EXCEPT
                 !.rec_before = sc,
                 !.rec_after = should_capture_self(sc, pol.state),
                 !.repeated = TRUE,
                 !.repeat_result =
                     should_capture(variant, sc, pol.state, pol.is_initial,
                                    pol.is_final, pol.action)]
    /\ sc' = should_capture_self(sc, pol.state)
    /\ UNCHANGED <<variant, runVars, conc, clf, cap, ui, life>>

\* one successful call of capture_step
PolicyCapture(state, action) ==
    /\ sc.step_index < MaxIndex
    /\ ~save_screenshot_raises(state)
    /\ sc' = capture_step_self(sc, state)
    /\ UNCHANGED <<variant, runVars, pol, conc, clf, cap, ui, life>>

PolicyNext ==
    \/ \E state \in PolicyStates, is_initial \in BOOLEAN, is_final \in BOOLEAN,
          action \in PolicyActions :
           PolicyCall(state, is_initial, is_final, action)
    \/ PolicyRepeat
    \/ \E state \in PolicyStates, action \in PolicyActions :
           PolicyCapture(state, action)

PolicySpec == PolicyInit /\ [][PolicyNext]_vars

----------------------------------------------------------------------------
(* ConcurrentSpec: two TaskRunners whose runs may overlap.                 *)

\* a wall-clock minute passes
ConcTick ==
    /\ conc.minute < MaxMinutes
    /\ conc' = [conc EXCEPT !.minute = @ + 1]
    /\ UNCHANGED <<variant, runVars, sc, pol, clf, cap, ui, life>>

\* run(): timestamp, create_task_directory, StateCapture(self.task_dir)
ConcRun(r) ==
    /\ conc.runner[r].pc = "idle"
    /\ LET dir == create_task_directory(conc.created, timestamp(conc.minute))
       IN  conc' = [conc EXCEPT
                      !.runner[r] = [pc |-> "running", task_dir |-> dir,
                                     step_index |-> 0],
                      !.created = @ \cup {dir},
                      !.shared = @ \/ \E o \in Runners \ {r} :
                                         /\ conc.runner[o].pc = "running"
                                         /\ conc.runner[o].task_dir = dir]
    /\ UNCHANGED <<variant, runVars, sc, pol, clf, cap, ui, life>>

\* the file is (re)written by runner r
ConcWrite(c, r, name) ==
    LET dir == c.runner[r].task_dir
    IN  [c EXCEPT !.files[dir][name] = r,
                  !.clobbered = @ \/ c.files[dir][name] \notin {"", r}]

\* one capture: step_NNN.png and step_NNN.json written, cursor advanced
ConcCapture(r) ==
    /\ conc.runner[r].pc = "running"
    /\ conc.runner[r].step_index < MaxConcSteps
    /\ conc' = [ConcWrite(conc, r, step_file(conc.runner[r].step_index))
                   EXCEPT !.runner[r].step_index = @ + 1]
    /\ UNCHANGED <<variant, runVars, sc, pol, clf, cap, ui, life>>

\* the finally block: task_metadata.json written, the run ends
ConcFinalize(r) ==
    /\ conc.runner[r].pc = "running"
    /\ conc' = [ConcWrite(conc, r, "task_metadata.json")
                   EXCEPT !.runner[r].pc = "done"]
    /\ UNCHANGED <<variant, runVars, sc, pol, clf, cap, ui, life>>

ConcNext ==
    \/ ConcTick
    \/ \E r \in Runners : ConcRun(r)
    \/ \E r \in Runners : ConcCapture(r)
    \/ \E r \in Runners : ConcFinalize(r)

ConcInit ==
    /\ Constructed
    /\ max_steps = 0
    /\ run_limit = 0

ConcurrentSpec == ConcInit /\ [][ConcNext]_vars

----------------------------------------------------------------------------
(* ClassifierSpec: step() and get_last_action() of one initialized wrapper *)
(* called directly, the engine's outputs drawn from bounded sets.          *)

ClassifierTexts ==
    { <<>>, <<"Clicked", "link">>, <<"Typed", "clicked">>, <<"CLICKED">>,
      <<"Input">>, <<"Navigated", LongText>>, <<"Scrolled">>, <<"Searched">>,
      <<"button">> }

ClassifierResults ==
    { <<>> } \cup { <<ActionResult(FALSE, t)>> : t \in ClassifierTexts }

ClassifierModelOutputs ==
    { <<>>, <<ClickShape>>, <<ScrollShape>>, <<InputShape>>, <<DoneShape>>,
      <<NavigateShape("ok")>>, <<NavigateShape("malformed")>>,
      <<ScrollShape, ClickShape>>, <<ClickShape, ScrollShape>>,
      <<ClickShape, NavigateShape("ok")>> }

ClassifierOutputs ==
    {EngineState(r, o) : r \in ClassifierResults, o \in ClassifierModelOutputs}

\* lengths of the element description found in the browser state (0 = None)
ElementDescLens == {0, 50}

ClassifierInit ==
    /\ Constructed
    /\ max_steps = 0
    /\ run_limit = 0

\* the wrapper is constructed and initialized
ClassifierInitialize ==
    /\ ~wrapper.exists
    /\ wrapper' = [NewWrapper EXCEPT !.agent = TRUE]
    /\ engine' = FreshEngine
    /\ clf' = [called |-> FALSE]
    /\ UNCHANGED <<variant, pc, runNo, run_limit, task_run, task_dir, steps, sc,
                   max_steps, step_num, exc, outcome, disk, h, pol, conc, cap, ui, life>>

\* await wrapper.step() returns
ClassifierStep(eng) ==
    /\ wrapper.agent
    /\ engine' = eng
    /\ wrapper' = wrapper_step(variant, wrapper, eng)
    /\ clf' = [called |-> FALSE]
    /\ UNCHANGED <<variant, pc, runNo, run_limit, task_run, task_dir, steps, sc,
                   max_steps, step_num, exc, outcome, disk, h, pol, conc, cap, ui, life>>

\* await wrapper.close()
ClassifierClose ==
    /\ wrapper.agent
    /\ wrapper' = close(wrapper)
    /\ clf' = [called |-> FALSE]
    /\ UNCHANGED <<variant, pc, runNo, run_limit, task_run, task_dir, steps, sc,
                   engine, max_steps, step_num, exc, outcome, disk, h, pol, conc, cap, ui, life>>

\* wrapper.get_last_action(browser_state): raises, or returns an
\* Optional[ActionFromPrevious] whose description has desc_len characters
ClassifierCall(elem_len) ==
    /\ wrapper.exists
    /\ LET raised == get_last_action_raises(variant, wrapper, engine)
           result == IF raised THEN None
                     ELSE get_last_action(variant, wrapper, engine)
       IN  clf' = [called |-> TRUE,
                   raised |-> raised,
                   result |-> result,
                   desc_len |-> IF IsSome(result)
                                THEN description_len(variant, wrapper, engine, elem_len)
                                ELSE 0]
    /\ UNCHANGED <<variant, runVars, sc, pol, conc, cap, ui, life>>

ClassifierNext ==
    \/ ClassifierInitialize
    \/ \E eng \in ClassifierOutputs : ClassifierStep(eng)
    \/ ClassifierClose
    \/ \E elem_len \in ElementDescLens : ClassifierCall(elem_len)

ClassifierSpec == ClassifierInit /\ [][ClassifierNext]_vars

----------------------------------------------------------------------------
(* RecorderSpec: capture_step of one StateCapture called directly by a     *)
(* caller that appends and saves the Step as run() does and goes on after  *)
(* a ValueError.                                                           *)

RecorderStates == {BrowserStateSummary(u, shot, PlainDom) : u \in Urls, shot \in BOOLEAN}
RecorderActions == {None, Some(ActionFromPrevious(CLICK, NoIndex))}

\* run() up to the try statement has created the directory and the recorder
RecorderInit ==
    /\ variant \in {"A", "B"}
    /\ max_steps = 0
    /\ run_limit = 0
    /\ pc = "idle"
    /\ runNo = 0
    /\ task_run = NoTaskRun
    /\ task_dir = 1
    /\ steps = <<>>
    /\ sc = StateCaptureInit(1)
    /\ wrapper = NoWrapper
    /\ engine = FreshEngine
    /\ step_num = 0
    /\ exc = FALSE
    /\ outcome = "none"
    /\ disk = [dir \in Dirs |-> EmptyDir]
    /\ h = NewObs(0)
    /\ pol = [called |-> FALSE]
    /\ conc = ConcIdle
    /\ clf = [called |-> FALSE]
    /\ cap = [called |-> FALSE]
    /\ ui = [constructed |-> FALSE]
    /\ life = [constructed |-> FALSE]

\* step = capture_step(state, action); steps.append(step); save_step(step)
RecorderCapture(state, action) ==
    /\ sc.step_index < MaxIndex \/ save_screenshot_raises(state)
    /\ LET raised == save_screenshot_raises(state)
           step == capture_step(sc, state, action)
           png == save_screenshot(disk[sc.output_dir].png, state, sc.step_index)
           d1 == [disk EXCEPT ![sc.output_dir].png = png]
       IN  /\ sc' = capture_step_after(sc, state)
           /\ steps' = IF raised THEN steps ELSE Append(steps, step)
           /\ disk' = IF raised THEN d1 ELSE save_step(d1, task_dir, step)
           /\ cap' = [called |-> TRUE,
                      raised |-> raised,
                      rec_before |-> sc,
                      steps_before |-> steps,
                      files_before |-> disk[sc.output_dir],
                      \* the index the previous call failed at, if it failed
                      failed_index |-> IF cap.called /\ cap.raised
                                       THEN cap.rec_before.step_index
                                       ELSE NoIndex]
    /\ UNCHANGED <<variant, pc, runNo, run_limit, task_run, task_dir, wrapper, engine,
                   max_steps, step_num, exc, outcome, h, pol, conc, clf, ui, life>>

RecorderNext ==
    \E state \in RecorderStates, action \in RecorderActions :
        RecorderCapture(state, action)

RecorderSpec == RecorderInit /\ [][RecorderNext]_vars

----------------------------------------------------------------------------
(* CallbackSpec: one UIStateCaptureAgent. Its caller invokes run(), the    *)
(* engine invokes the step callback inside agent.run(), and the embedding  *)
(* program calls trigger_capture() on the agent's UIChangeDetector; every  *)
(* debounced callback is an asyncio task of its own. The code between two  *)
(* awaits runs as one step of the event loop.                              *)

TaskIds == 1..MaxTasks

\* self._debounce_task is None
NoTask == 0

\* asyncio.create_task(debounced_callback()) has not been called for this id
UnbornTask ==
    [st |-> "unborn", must_cancel |-> FALSE, invoked |-> FALSE, burst |-> 0,
     pending_cancelled |-> FALSE]

\* the task created by trigger_capture, suspended in asyncio.sleep
NewTask(b) == [UnbornTask EXCEPT !.st = "sleep", !.burst = b]

\* Task.cancel(): a task that has not finished receives CancelledError at
\* the await it is suspended in, the next time the event loop runs it
cancel(task) ==
    IF task.st \in {"sleep", "summary", "capture"}
    THEN [task EXCEPT !.must_cancel = TRUE,
                      !.pending_cancelled = @ \/ task.st = "sleep"]
    ELSE task

\* a mutant of cancel_pending: the earlier task is left alone
cancel_pending_Never(tasks, cur) == tasks

\* trigger_capture: if self._debounce_task: self._debounce_task.cancel()
cancel_pending(tasks, cur) ==
    IF cur # NoTask THEN [tasks EXCEPT ![cur] = cancel(@)] ELSE tasks

\* stop_monitoring: cancel the debounce task and forget it
stop_monitoring(u) ==
    IF u.detector /\ u.debounce_task # NoTask
    THEN [u EXCEPT !.tasks[u.debounce_task] = cancel(@), !.debounce_task = NoTask]
    ELSE u

\* UIStateCaptureAgent.__init__
NewAgent ==
    [constructed |-> TRUE,
     run_pc |-> "idle",               \* position of run()
     runs |-> 0,                      \* run() invocations made
     session |-> FALSE,               \* self.agent.browser_session is set
     capture_in_progress |-> FALSE,   \* self._capture_in_progress
     task_finalized |-> FALSE,        \* self._task_finalized
     mgr_active |-> FALSE,            \* the ScreenshotManager has an active task
     saved |-> 0,                     \* screenshots the manager has saved
     finalized_ok |-> 0,              \* finalize_task() calls that returned
     detector |-> FALSE,              \* self.ui_change_detector is not None
     debounce_task |-> NoTask,        \* its _debounce_task
     tasks |-> [t \in TaskIds |-> UnbornTask],
     created |-> 0,                   \* debounce tasks created so far
     bursts |-> 0,                    \* bursts of triggers so far
     step_pc |-> "none",              \* position of the step callback
     step_shot |-> FALSE,             \* its browser_state.screenshot is set
     callbacks |-> 0,                 \* step callbacks made so far
     last |-> "constructed"]          \* what the last step did

\* ScreenshotManager.start_task
manager_start_task(u) == [u EXCEPT !.mgr_active = TRUE]

\* ScreenshotManager.save_screenshot returns: it raises RuntimeError
\* ("No active task") without an active task, or when the write fails
manager_saves(u, io_ok) == u.mgr_active /\ io_ok

\* ScreenshotManager.finalize_task returns (it raises otherwise)
manager_finalizes(u, io_ok) == u.mgr_active /\ io_ok

\* a mutant of capture_dropped: the in-progress flag is not consulted
capture_dropped_FinalizedOnly(u) == u.task_finalized

\* _capture_screenshot: if self._capture_in_progress or self._task_finalized: return
capture_dropped(u) == u.capture_in_progress \/ u.task_finalized

\* _capture_screenshot suspends in get_browser_state_summary (line 109)
awaits_summary(u, shot) == ~capture_dropped(u) /\ ~shot /\ u.session

\* _capture_screenshot from "if browser_state.screenshot:" to the end of
\* its finally block
finish_capture(u, shot, io_ok) ==
    LET saves == shot /\ manager_saves(u, io_ok)
    IN  [u EXCEPT !.saved = IF saves THEN @ + 1 ELSE @,
                  !.capture_in_progress = FALSE,
                  !.last = IF saves THEN "saved"
                           ELSE IF shot THEN "save_failed" ELSE "no_screenshot"]

\* _capture_screenshot from its first line to its first await, or to its
\* end when it does not suspend
begin_capture(u, shot, io_ok) ==
    IF capture_dropped(u)
    THEN [u EXCEPT !.last = IF u.capture_in_progress THEN "dropped_busy"
                             ELSE "dropped_finalized"]
    ELSE IF awaits_summary(u, shot)
    THEN [u EXCEPT !.capture_in_progress = TRUE, !.last = "requested"]
    ELSE finish_capture([u EXCEPT !.capture_in_progress = TRUE], shot, io_ok)

SummaryOutcomes == {"shot", "no_shot", "raises"}

CallbackInit ==
    /\ Constructed
    /\ variant = "A"
    /\ max_steps = 0
    /\ run_limit = 0

\* agent = UIStateCaptureAgent(...)
UiConstruct ==
    /\ ~ui.constructed
    /\ ui' = NewAgent
    /\ UNCHANGED <<variant, runVars, sc, pol, conc, clf, cap, life>>

\* run() up to "await self.agent.run(...)"
UiRun(has_session) ==
    /\ ui.constructed
    /\ ui.run_pc \in {"idle", "done"}
    /\ ui.runs < MaxUiRuns
    /\ ui' = [manager_start_task(ui) EXCEPT
                  !.runs = @ + 1,
                  !.session = has_session,
                  !.detector = @ \/ has_session,
                  !.debounce_task = IF has_session THEN NoTask ELSE @,
                  !.run_pc = "agent_run",
                  !.last = "run_started"]
    /\ UNCHANGED <<variant, runVars, sc, pol, conc, clf, cap, life>>

\* the engine awaits _on_step_callback, which suspends in asyncio.sleep(0.3)
UiStepCallback(shot) ==
    /\ ui.constructed
    /\ ui.run_pc = "agent_run"
    /\ ui.step_pc = "none"
    /\ ui.callbacks < MaxCallbacks
    /\ ui' = [ui EXCEPT !.step_pc = "sleep", !.step_shot = shot,
                        !.callbacks = @ + 1, !.last = "step_callback"]
    /\ UNCHANGED <<variant, runVars, sc, pol, conc, clf, cap, life>>

\* _on_step_callback after the sleep: await self._capture_screenshot(...)
UiStepCapture(io_ok) ==
    /\ ui.constructed
    /\ ui.step_pc = "sleep"
    /\ ui' = [begin_capture(ui, ui.step_shot, io_ok) EXCEPT
                  !.step_pc = IF awaits_summary(ui, ui.step_shot)
                              THEN "summary" ELSE "none"]
    /\ UNCHANGED <<variant, runVars, sc, pol, conc, clf, cap, life>>

\* the step callback's get_browser_state_summary returns or raises
UiStepSummary(result, io_ok) ==
    /\ ui.constructed
    /\ ui.step_pc = "summary"
    /\ ui' = [finish_capture(ui, result = "shot", io_ok) EXCEPT
                  !.step_pc = "none",
                  !.last = IF result = "raises" THEN "summary_failed" ELSE @]
    /\ UNCHANGED <<variant, runVars, sc, pol, conc, clf, cap, life>>

\* the finally block of run(), which does not suspend: stop_monitoring(),
\* then finalize_task() unless self._task_finalized
run_finally(u, io_ok) ==
    LET stopped == stop_monitoring(u)
    IN  IF stopped.task_finalized
        THEN [stopped EXCEPT !.run_pc = "done", !.last = "already_finalized"]
        ELSE IF manager_finalizes(stopped, io_ok)
        THEN [stopped EXCEPT !.run_pc = "done",
                             !.task_finalized = TRUE,
                             !.mgr_active = FALSE,
                             !.finalized_ok = @ + 1,
                             !.last = "finalized"]
        ELSE [stopped EXCEPT !.run_pc = "done", !.last = "finalize_failed"]

\* await self.agent.run(...) returns or raises; after a return with a
\* detector run() suspends in asyncio.sleep(2) and start_monitoring(),
\* otherwise it goes through its finally block
UiAgentRunEnds(raised, io_ok) ==
    /\ ui.constructed
    /\ ui.run_pc = "agent_run"
    /\ ui.step_pc = "none"
    /\ ui' = IF ~raised /\ ui.detector /\ ui.session
             THEN [ui EXCEPT !.run_pc = "start_monitoring", !.last = "agent_run_ended"]
             ELSE run_finally(ui, io_ok)
    /\ UNCHANGED <<variant, runVars, sc, pol, conc, clf, cap, life>>

\* await asyncio.sleep(2); await self.ui_change_detector.start_monitoring()
\* return or raise, then the finally block
UiStartMonitoring(io_ok) ==
    /\ ui.constructed
    /\ ui.run_pc = "start_monitoring"
    /\ ui' = run_finally(ui, io_ok)
    /\ UNCHANGED <<variant, runVars, sc, pol, conc, clf, cap, life>>

\* await detector.trigger_capture()
TriggerCapture ==
    /\ ui.constructed
    /\ ui.detector
    /\ ui.created < MaxTasks
    /\ LET cur == ui.debounce_task
           pending == cur # NoTask /\ ui.tasks[cur].st = "sleep"
           b == IF pending THEN ui.bursts ELSE ui.bursts + 1
           t == ui.created + 1
       IN  ui' = [ui EXCEPT !.tasks = [cancel_pending(ui.tasks, cur) EXCEPT ![t] = NewTask(b)],
                            !.debounce_task = t,
                            !.created = t,
                            !.bursts = b,
                            !.last = "triggered"]
    /\ UNCHANGED <<variant, runVars, sc, pol, conc, clf, cap, life>>

\* debounced_callback after asyncio.sleep: await self.change_callback(),
\* which is _on_ui_change up to its get_browser_state_summary
TaskWake(t) ==
    /\ ui.constructed
    /\ ui.tasks[t].st = "sleep"
    /\ ui' = IF ui.tasks[t].must_cancel
             THEN [ui EXCEPT !.tasks[t].st = "cancelled", !.last = "task_cancelled"]
             ELSE [ui EXCEPT !.tasks[t].invoked = TRUE,
                             !.tasks[t].st = IF ui.session /\ ~ui.capture_in_progress
                                             THEN "summary" ELSE "done",
                             !.last = "ui_change"]
    /\ UNCHANGED <<variant, runVars, sc, pol, conc, clf, cap, life>>

\* _on_ui_change: get_browser_state_summary returns or raises, then
\* await self._capture_screenshot(...)
TaskSummary(t, result, io_ok) ==
    /\ ui.constructed
    /\ ui.tasks[t].st = "summary"
    /\ ui' = IF ui.tasks[t].must_cancel
             THEN [ui EXCEPT !.tasks[t].st = "cancelled", !.last = "task_cancelled"]
             ELSE IF result = "raises"
             THEN [ui EXCEPT !.tasks[t].st = "done", !.last = "summary_failed"]
             ELSE [begin_capture(ui, result = "shot", io_ok) EXCEPT
                       !.tasks[t].st = IF awaits_summary(ui, result = "shot")
                                       THEN "capture" ELSE "done"]
    /\ UNCHANGED <<variant, runVars, sc, pol, conc, clf, cap, life>>

\* _capture_screenshot of a debounce task resumes from line 109
TaskCapture(t, result, io_ok) ==
    /\ ui.constructed
    /\ ui.tasks[t].st = "capture"
    /\ ui' = IF ui.tasks[t].must_cancel
             THEN [ui EXCEPT !.tasks[t].st = "cancelled",
                             !.capture_in_progress = FALSE,
                             !.last = "task_cancelled"]
             ELSE [finish_capture(ui, result = "shot", io_ok) EXCEPT
                       !.tasks[t].st = "done",
                       !.last = IF result = "raises" THEN "summary_failed" ELSE @]
    /\ UNCHANGED <<variant, runVars, sc, pol, conc, clf, cap, life>>

CallbackNext ==
    \/ UiConstruct
    \/ \E has_session \in BOOLEAN : UiRun(has_session)
    \/ \E shot \in BOOLEAN : UiStepCallback(shot)
    \/ \E io_ok \in BOOLEAN : UiStepCapture(io_ok)
    \/ \E result \in SummaryOutcomes, io_ok \in BOOLEAN : UiStepSummary(result, io_ok)
    \/ \E raised \in BOOLEAN, io_ok \in BOOLEAN : UiAgentRunEnds(raised, io_ok)
    \/ \E io_ok \in BOOLEAN : UiStartMonitoring(io_ok)
    \/ TriggerCapture
    \/ \E t \in TaskIds : TaskWake(t)
    \/ \E t \in TaskIds, result \in SummaryOutcomes, io_ok \in BOOLEAN : TaskSummary(t, result, io_ok)
    \/ \E t \in TaskIds, result \in SummaryOutcomes, io_ok \in BOOLEAN : TaskCapture(t, result, io_ok)

CallbackSpec == CallbackInit /\ [][CallbackNext]_vars

\* the coroutines inside _capture_screenshot between setting and resetting
\* the in-progress flag (0 is the step callback)
Holders ==
    {t \in TaskIds : ui.tasks[t].st = "capture"}
        \cup (IF ui.step_pc = "summary" THEN {0} ELSE {})

----------------------------------------------------------------------------
(* Claims                                                                  *)

InFinally == pc \in {"finalize", "close", "end"}
AfterFinalize == pc \in {"close", "end"}
Persisted == disk[task_dir].metadata

\* C1: in every run, at every point between operations and at run end, the
\* steps of the run's step list carry the indices 0..n-1 in capture order,
\* the recorder's step_index equals n, and the final total_steps equals n
\* (n = the length of the step list).
C1_StepIndicesContiguous ==
    pc # "idle" =>
        /\ \A i \in 1..Len(steps) : steps[i].step_index = i - 1
        /\ sc.step_index = Len(steps)
        /\ (AfterFinalize => task_run.total_steps = Len(steps))

\* C2: a run's status starts in_progress and changes exactly once, when the
\* loop is left: to success exactly when a completion check ended the loop,
\* to timeout exactly when the step budget ran out with no completion check
\* having succeeded, to failure exactly when an exception left the try
\* block; afterwards it never changes.
C2_StatusLifecycle ==
    /\ pc \in {"construct", "initialize", "loop", "get_state", "final_state"} =>
           /\ task_run.status = IN_PROGRESS
           /\ h.status_changes = 0
    /\ InFinally =>
           /\ h.status_changes = 1
           /\ task_run.status \in {SUCCESS, TIMEOUT, FAILURE}
           /\ task_run.status = FAILURE <=> exc
           /\ task_run.status = SUCCESS <=> (~exc /\ h.done_seen)
           /\ task_run.status = TIMEOUT <=>
                  (~exc /\ ~h.done_seen /\ h.step_calls = max_steps)

C2_Witness ==
    /\ pc = "end"
    /\ task_run.status = SUCCESS
    /\ h.step_calls = 2
    /\ max_steps = 3

\* C3: the finalize phase runs exactly once per run on every exit path:
\* end_time is stamped and total_steps is set only there, and the record
\* with those values is persisted together with the files of every step
\* captured so far, also when the run failed.
C3_FinalizeOnce ==
    /\ h.finalize_count <= 1
    /\ (pc \notin {"idle", "close", "end"}) =>
           /\ h.finalize_count = 0
           /\ ~task_run.end_time
           /\ task_run.total_steps = 0
           /\ Persisted = None
    /\ AfterFinalize =>
           /\ h.finalize_count = 1
           /\ task_run.end_time
           /\ task_run.total_steps = Len(steps)
           /\ Persisted = Some([status |-> task_run.status,
                                end_time |-> TRUE,
                                total_steps |-> Len(steps)])
           /\ \A i \in 1..Len(steps) :
                  /\ steps[i].step_index \in disk[task_dir].png
                  /\ steps[i].step_index \in disk[task_dir].json

C3_Witness ==
    /\ pc = "end"
    /\ task_run.status = FAILURE
    /\ Len(steps) = 2
    /\ IsSome(Persisted)
    /\ Get(Persisted).total_steps = 2

\* C4: whenever the engine wrapper was created in a run, close() has been
\* invoked by the time run() is left, whatever the exit path.
C4_EngineClosed ==
    (pc = "end" /\ h.wrapper_created) => h.close_calls >= 1

\* C5: once step() has failed, no further step() or get_state() call is
\* made, the status is failure, the finalize phase runs, and only after it
\* does the exception reach the caller of run().
C5_StepFailureAborts ==
    /\ h.step_failed =>
           /\ h.calls_after_failure = 0
           /\ task_run.status = FAILURE
           /\ exc
           /\ InFinally
           /\ (pc = "end" =>
                   /\ outcome = "raised"
                   /\ h.finalize_count = 1
                   /\ IsSome(Persisted)
                   /\ Get(Persisted).status = FAILURE)
    /\ outcome = "raised" => h.finalize_count = 1

C5_Witness ==
    /\ h.step_failed
    /\ h.step_calls = 3
    /\ Len(steps) >= 1
    /\ pc = "end"
    /\ outcome = "raised"

\* C6: a get_state() failure is never fatal: right after any failed
\* get_state() call the status is still in_progress, no exception is
\* propagating and the run is back at the head of the loop.
C6_GetStateFailureNonFatal ==
    h.last_event = "get_state_failed" =>
        /\ task_run.status = IN_PROGRESS
        /\ ~exc
        /\ pc = "loop"

\* C7: when an approved capture finds no screenshot payload, the capture is
\* dropped and the run continues: the status is not failure and no
\* exception is propagating.
C7_MissingScreenshotSkips ==
    h.last_event = "missing_screenshot" =>
        /\ task_run.status # FAILURE
        /\ ~exc
        /\ ~InFinally

\* C8: a failure of tutorial generation in the finalize phase is swallowed:
\* the run still reaches close(), the engine is closed, and run() returns
\* the record unless the run itself had failed.
C8_TutorialFailureSwallowed ==
    (h.tutorial_failed /\ pc = "end") =>
        /\ (h.wrapper_created => h.close_calls >= 1)
        /\ (~exc => outcome = "returned")

\* the modal/dialog heuristic as the policy states it: the interactive map
\* is present and its text, case-insensitively, contains a marker
ModalHeuristicFires(state) ==
    /\ state.dom.dom_state
    /\ state.dom.selector_map > 0
    /\ \E i \in 1..Len(state.dom.text) :
           SubstringsOf(Lower(state.dom.text[i]))
               \cap {"role=dialog", "role=alertdialog", "modal", "dialog"} # {}

\* the first-true-wins rule list of the Capture Policy
RuleList(state, previous_url, action, is_initial, is_final) ==
    IF is_initial \/ is_final THEN TRUE
    ELSE IF previous_url # NoneUrl /\ state.url # previous_url THEN TRUE
    ELSE IF ModalHeuristicFires(state) THEN TRUE
    ELSE IF action # None /\ action[1].type \in {CLICK, TYPE, NAVIGATE} THEN TRUE
    ELSE FALSE

\* C9: for every combination of inputs, should_capture of
\* src/state_capture.py returns the result of the first-true-wins rule list
\* (initial/final, URL change, modal heuristic, CLICK/TYPE/NAVIGATE action).
C9_PolicyRuleList ==
    (pol.called /\ variant = "A") =>
        pol.result = RuleList(pol.state, pol.rec_before.previous_url, pol.action,
                              pol.is_initial, pol.is_final)

C9_Witness ==
    /\ pol.called
    /\ variant = "A"
    /\ ~pol.is_initial
    /\ ~pol.is_final
    /\ pol.rec_before.previous_url = pol.state.url
    /\ ~ModalHeuristicFires(pol.state)
    /\ pol.action = Some(ActionFromPrevious(NAVIGATE, NoIndex))
    /\ pol.result

C12_HasUniqueUrl ==
    pc # "idle" =>
        \A k \in 1..Len(steps) :
            steps[k].has_unique_url <=> (k = 1 \/ steps[k].url # steps[k - 1].url)

\* C13: whenever an is_done() check has succeeded in a run, the run leaves
\* the loop by the break with exactly one forced final capture appended as
\* the last step, the status is success, and after the finalize phase
\* total_steps is the number of steps captured in the run.
C13_CompletionForcesFinalCapture ==
    (h.done_seen /\ InFinally) =>
        /\ h.loop_exit = "break"
        /\ h.final_captures = 1
        /\ task_run.status = SUCCESS
        /\ (AfterFinalize => task_run.total_steps = h.captured)

\* C14: step() is invoked at most max_steps times in a run; when the loop
\* ends without break or exception, exactly max_steps calls were made and
\* the status is timeout; and, every awaited call returning or raising,
\* the run ends.
C14_StepBudget ==
    /\ [](/\ h.step_calls <= max_steps
          /\ step_num <= max_steps + 1
          /\ (h.loop_exit = "exhausted" =>
                  /\ h.step_calls = max_steps
                  /\ task_run.status = TIMEOUT))
    /\ <>(pc = "end")

C14_Witness ==
    /\ pc = "end"
    /\ max_steps = 3
    /\ h.step_calls = 3
    /\ h.loop_exit = "exhausted"
    /\ task_run.status = TIMEOUT

\* C15: when run() is invoked again on the same TaskRunner, each finalized
\* record's total_steps is the number of steps captured in that run, the
\* runner's step list holds no step index twice, and no capture replaces a
\* step file that was already on disk.
C15_RerunDoesNotDoubleCount ==
    /\ AfterFinalize => task_run.total_steps = h.captured
    /\ \A i, j \in 1..Len(steps) :
           i # j => steps[i].step_index # steps[j].step_index
    /\ ~h.overwrote

\* C16: two runs that overlap never have the same output directory, and no
\* run replaces a step file or the metadata file written by the other.
C16_IndependentDirectories ==
    /\ \A a, b \in Runners :
           (a # b /\ conc.runner[a].pc = "running" /\ conc.runner[b].pc = "running")
               => conc.runner[a].task_dir # conc.runner[b].task_dir
    /\ ~conc.shared
    /\ ~conc.clobbered

\* C17: when the wrapper constructor rejects the configuration (a required
\* key is missing), the run has not started: there is no RunRecord, no run
\* directory, and no status is recorded or persisted.
C17_MissingKeysRejectedBeforeRun ==
    h.construct_failed =>
        /\ task_run = NoTaskRun
        /\ task_dir = 0
        /\ \A d \in Dirs : disk[d].metadata = None

\* the keyword list of the Action Classifier, matched case-insensitively in
\* priority order
KeywordKind(text) ==
    LET lo == LowerText(text)
    IN  IF Contains(lo, "click") THEN Some(CLICK)
        ELSE IF Contains(lo, "type") \/ Contains(lo, "input") THEN Some(TYPE)
        ELSE IF Contains(lo, "navigate") \/ Contains(lo, "goto") THEN Some(NAVIGATE)
        ELSE IF Contains(lo, "scroll") THEN Some(SCROLL)
        ELSE None

\* C18: when free text is available and a keyword matches, the result has
\* the kind of the first matching keyword in the order click, type/input,
\* navigate/goto, scroll; when no keyword matches, the result is the one of
\* the structural inspection.
C18_TextKeywordPriority ==
    (clf.called /\ ~clf.raised /\ consulted_text(variant, wrapper) # <<>>) =>
        LET kw == KeywordKind(consulted_text(variant, wrapper))
        IN  IF IsSome(kw)
            THEN IsSome(clf.result) /\ Get(clf.result).type = Get(kw)
            ELSE clf.result = structural_action(variant, wrapper, engine)

\* C19: the classifier never raises, and it returns None exactly when no
\* keyword matches the free text and the engine's last model output holds
\* no action.
C19_ClassifierNeverRaises ==
    clf.called =>
        /\ ~clf.raised
        /\ clf.result = None <=>
               /\ KeywordKind(consulted_text(variant, wrapper)) = None
               /\ (~wrapper.agent \/ Len(engine.last_model_output) = 0)

\* C20: every action the classifier returns has a description of at most
\* 100 characters.
C20_DescriptionAtMost100 ==
    (clf.called /\ IsSome(clf.result)) => clf.desc_len <= 100

\* C21: a capture_step call that fails for want of a screenshot leaves the
\* recorder as it was (step_index, previous_url), writes no file and adds no
\* Step to the step list; the next successful capture takes the index the
\* failed call would have taken.
C21_FailedCaptureLeavesRecorder ==
    cap.called =>
        /\ cap.raised =>
               /\ sc = cap.rec_before
               /\ steps = cap.steps_before
               /\ disk[sc.output_dir] = cap.files_before
        /\ (~cap.raised /\ cap.failed_index # NoIndex) =>
               /\ Last(steps).step_index = cap.failed_index
               /\ sc.step_index = cap.failed_index + 1
        /\ \A i \in 1..Len(steps) : steps[i].step_index = i - 1
        /\ disk[sc.output_dir].png = 0..(Len(steps) - 1)

C21_Witness ==
    /\ cap.called
    /\ ~cap.raised
    /\ cap.failed_index = 1
    /\ Len(steps) = 2
    /\ cap.rec_before.previous_url = "a"

\* C22: an iteration of run() that is not captured (the policy said no, or
\* get_state() raised) leaves the recorder's step_index and previous_url,
\* the step list and the step files as they were; an iteration that
\* captures advances step_index by exactly 1 and appends exactly one Step,
\* which carries the index the recorder had before.
C22_UncapturedConsumesNoIndex ==
    [][/\ (/\ h'.get_state_calls = h.get_state_calls + 1
           /\ h'.last_event \in {"skipped", "get_state_failed"})
          => /\ sc' = sc
             /\ steps' = steps
             /\ disk' = disk
       /\ (h'.captured = h.captured + 1)
          => /\ sc'.step_index = sc.step_index + 1
             /\ Len(steps') = Len(steps) + 1
             /\ Last(steps').step_index = sc.step_index]_vars

C22_Witness ==
    /\ h.last_event = "skipped"
    /\ h.get_state_calls = 3
    /\ Len(steps) = 1
    /\ sc.step_index = 1
    /\ sc.previous_url = "a"

\* the step taken is a loop iteration that obtained a state, and so did
\* the iteration before it
TwoIterations == pc = "get_state" /\ h.iter.seen /\ h'.iter.seen

\* both observed the same URL and classified no action
SameUrlNoAction ==
    /\ h'.iter.url = h.iter.url
    /\ h.iter.action = None
    /\ h'.iter.action = None

\* C23: two consecutive iterations that observe the identical URL with
\* action None are never both captured.
C23_NeverBothCaptured ==
    [][(TwoIterations /\ SameUrlNoAction /\ h.iter.captured)
           => ~h'.iter.captured]_vars

\* C23 as amended: when the first of two consecutive iterations with the
\* identical URL and action None was captured, the second reaches rule 3
\* (modal/dialog marker, src/state_capture.py only) or rule 5, and it is
\* captured only by rule 3.
C23_BothCapturedOnlyByModal ==
    [][(TwoIterations /\ SameUrlNoAction /\ h.iter.captured)
           => /\ h'.iter.rule \in {3, 5}
              /\ h'.iter.captured => h'.iter.rule = 3
              /\ variant = "B" => h'.iter.rule = 5]_vars

C23_Witness ==
    /\ h.iter.seen
    /\ h.get_state_calls = 2
    /\ Len(steps) = 1
    /\ steps[1].action_from_previous = None
    /\ h.iter.action = None
    /\ h.iter.url = steps[1].url
    /\ h.iter.rule = 5
    /\ ~h.iter.captured

\* the step taken is a loop iteration that classified a CLICK and observed
\* the URL of the step captured last
ClickAtCapturedUrl ==
    /\ pc = "get_state"
    /\ h'.iter.seen
    /\ IsSome(h'.iter.action)
    /\ Get(h'.iter.action).type = CLICK
    /\ Len(steps) > 0
    /\ h'.iter.url = Last(steps).url

\* C24: an iteration whose classified action is CLICK and whose URL equals
\* the URL of the previously captured step is captured, and the step it
\* appends has has_unique_url = False.
C24_ClickSameUrlCaptured ==
    [][ClickAtCapturedUrl
           => /\ h'.iter.captured
              /\ Len(steps') = Len(steps) + 1
              /\ ~Last(steps').has_unique_url]_vars

\* the state has an interactive-element map whose text contains a marker
MarkerInMap(state) ==
    /\ state.dom.dom_state
    /\ state.dom.selector_map > 0
    /\ \E marker \in {"role=dialog", "role=alertdialog", "modal", "dialog"} :
           Contains(state.dom.text, marker)

\* C25: should_capture answers yes for every state whose interactive map
\* text contains a modal/dialog marker, also when the URL is unchanged and
\* the action is absent or SCROLL, WAIT or OTHER; for a state without an
\* interactive map the heuristic is false.
C25_ModalMarkerCaptures ==
    pol.called =>
        /\ MarkerInMap(pol.state) => pol.result
        /\ ~pol.state.dom.dom_state => ~has_modal_or_dialog(pol.state)

\* C26: at the end of every run, total_steps is the number of persisted
\* steps: the run's directory holds step_NNN.png and step_NNN.json for
\* exactly the indices 0..total_steps-1.
C26_TotalStepsMatchesFiles ==
    pc = "end" =>
        /\ disk[task_dir].png = 0..(task_run.total_steps - 1)
        /\ disk[task_dir].json = 0..(task_run.total_steps - 1)

\* C27: an action the classifier returns with kind NAVIGATE or SCROLL has
\* element_index None, whatever the engine's model output holds.
C27_NoIndexOnNavigateScroll ==
    (clf.called /\ IsSome(clf.result) /\ Get(clf.result).type \in {NAVIGATE, SCROLL})
        => Get(clf.result).element_index = NoIndex

\* the engine's completion signal as the latest step() call left it
EngineDone == \E i \in 1..Len(engine.last_result) : engine.last_result[i].is_done

\* C28: once the completion signal is true after a step() call, step() is
\* not called again in that run, and the run ends in that iteration with
\* status success.
C28_DoneEndsRun ==
    [][EngineDone =>
           /\ h'.step_calls = h.step_calls
           /\ step_num' = step_num
           /\ pc' = "end" => task_run'.status = SUCCESS]_vars

RefreshedWrapper(w, eng) ==
    [w EXCEPT !.last_action_result = eng.last_result,
              !.last_extracted_content =
                  IF Len(eng.last_result) > 0
                  THEN Last(eng.last_result).extracted_content
                  ELSE <<>>]

\* C30: the action recorded on a step captured in an iteration is the one
\* derived from the engine result of that iteration's own step() call,
\* never from the result of an earlier iteration.
C30_ActionFromOwnStep ==
    h.last_event \in {"captured", "final_captured"} =>
        Last(steps).action_from_previous =
            get_last_action(variant, RefreshedWrapper(wrapper, engine), engine)

\* C31: step counts are bounded by the iterations executed: an iteration
\* appends at most one step and the completing iteration at most one more;
\* a run that ended with success in iteration k has 1 <= total_steps <= k+1
\* and a run that ended with timeout has total_steps <= max_steps.
C31_StepCountBounds ==
    /\ h.final_captures <= 1
    /\ h.captured <= h.step_calls + h.final_captures
    /\ (AfterFinalize /\ task_run.status = SUCCESS) =>
           /\ 1 <= task_run.total_steps
           /\ task_run.total_steps <= step_num + 1
    /\ (AfterFinalize /\ task_run.status = TIMEOUT) =>
           /\ 0 <= task_run.total_steps
           /\ task_run.total_steps <= max_steps

\* C32: run() raises to its caller exactly when the persisted status is
\* failure; with success or timeout it returns the record; the persisted
\* status is never in_progress.
C32_RaisesIffFailure ==
    /\ (pc # "idle" /\ IsSome(Persisted)) => Get(Persisted).status # IN_PROGRESS
    /\ pc = "end" =>
           /\ IsSome(Persisted)
           /\ Get(Persisted).status = task_run.status
           /\ outcome = "raised" <=> Get(Persisted).status = FAILURE
           /\ Get(Persisted).status \in {SUCCESS, TIMEOUT} => outcome = "returned"

\* C33: at every policy evaluation made after at least one step has been
\* captured, the recorder's previous_url is the URL of the state observed
\* last, and the URL-change rule fires exactly when the observed URL
\* differs from the previously observed URL.
C33_PreviousUrlIsObservedUrl ==
    /\ []((pc \in {"loop", "get_state", "final_state"} /\ h.captured >= 1)
              => sc.previous_url = h.observed_url)
    /\ [][(pc = "get_state" /\ h.captured >= 1 /\ h'.iter.seen /\ h'.iter.rule # 0)
              => (h'.iter.rule = 2 <=>
                      (h.observed_url # NoneUrl /\ h'.iter.url # h.observed_url))]_vars

C33_Witness ==
    /\ pc = "loop"
    /\ h.iter.seen
    /\ h.iter.rule = 2
    /\ h.get_state_calls = 3
    /\ h.captured = 2
    /\ h.last_event = "captured"
    /\ sc.previous_url = h.observed_url

----------------------------------------------------------------------------
(* LifecycleSpec: initialize(), step(), get_state(), is_done() and close() *)
(* of one engine wrapper called one after the other in any order, each     *)
(* awaited engine call returning or raising.                               *)

InitializeOutcomes == {"ok", "raises_before_agent", "raises_after_agent"}

\* the wrapper after initialize() returned or raised
initialize(w, result) ==
    IF w.agent \/ result = "raises_before_agent" THEN w
    ELSE [w EXCEPT !.agent = TRUE]

\* the wrapper after close() returned or browser_session.close() raised
close_outcome(w, has_session, raises) ==
    IF w.agent /\ has_session /\ raises THEN w ELSE close(w)

\* get_state() raises RuntimeError before it reaches the browser session
get_state_rejected(w, has_session) == ~w.agent \/ ~has_session

\* what the caller of the last wrapper method observed
Call(op, phase, error, invoked, result) ==
    [op |-> op, phase_before |-> phase, error |-> error,
     engine_invoked |-> invoked, result |-> result]

LifecycleInit ==
    /\ Constructed
    /\ max_steps = 0
    /\ run_limit = 0

\* wrapper = BrowserAgentWrapper(...) / BrowserAgent(...)
LifeConstruct ==
    /\ ~life.constructed
    /\ wrapper' = NewWrapper
    /\ life' = [constructed |-> TRUE, phase |-> "new", engines |-> 0,
                last |-> Call("construct", "none", "none", FALSE, FALSE)]
    /\ UNCHANGED <<variant, pc, runNo, run_limit, task_run, task_dir, steps, sc,
                   engine, max_steps, step_num, exc, outcome, disk, h, pol, conc,
                   clf, cap, ui>>

\* await wrapper.initialize()
LifeInitialize(result) ==
    /\ life.constructed
    /\ wrapper.agent \/ life.engines < MaxEngines
    /\ LET creates == ~wrapper.agent /\ result # "raises_before_agent"
           raised == ~wrapper.agent /\ result # "ok"
       IN  /\ wrapper' = initialize(wrapper, result)
           /\ engine' = IF creates THEN FreshEngine ELSE engine
           /\ life' = [life EXCEPT
                          !.engines = IF creates THEN @ + 1 ELSE @,
                          !.phase = IF raised THEN "failed_init" ELSE "initialized",
                          !.last = Call("initialize", life.phase,
                                        IF raised THEN "other" ELSE "none",
                                        creates, FALSE)]
    /\ UNCHANGED <<variant, pc, runNo, run_limit, task_run, task_dir, steps, sc,
                   max_steps, step_num, exc, outcome, disk, h, pol, conc,
                   clf, cap, ui>>

\* await wrapper.step(): RuntimeError without an agent, otherwise
\* agent.step() returns with new engine state or raises
LifeStep(eng, raises) ==
    /\ life.constructed
    /\ IF ~wrapper.agent
       THEN /\ life' = [life EXCEPT !.last = Call("step", life.phase, "RuntimeError",
                                                   FALSE, FALSE)]
            /\ UNCHANGED <<wrapper, engine>>
       ELSE IF raises
       THEN /\ life' = [life EXCEPT !.last = Call("step", life.phase, "other",
                                                   TRUE, FALSE)]
            /\ UNCHANGED <<wrapper, engine>>
       ELSE /\ engine' = eng
            /\ wrapper' = wrapper_step(variant, wrapper, eng)
            /\ life' = [life EXCEPT !.last = Call("step", life.phase, "none",
                                                   TRUE, FALSE)]
    /\ UNCHANGED <<variant, pc, runNo, run_limit, task_run, task_dir, steps, sc,
                   max_steps, step_num, exc, outcome, disk, h, pol, conc,
                   clf, cap, ui>>

\* await wrapper.get_state()
LifeGetState(has_session, raises) ==
    /\ life.constructed
    /\ life' = [life EXCEPT !.last =
                   IF get_state_rejected(wrapper, has_session)
                   THEN Call("get_state", life.phase, "RuntimeError", FALSE, FALSE)
                   ELSE Call("get_state", life.phase,
                             IF raises THEN "other" ELSE "none", TRUE, FALSE)]
    /\ UNCHANGED <<variant, runVars, sc, pol, conc, clf, cap, ui>>

\* wrapper.is_done()
LifeIsDone ==
    /\ life.constructed
    /\ life' = [life EXCEPT !.last = Call("is_done", life.phase, "none", FALSE,
                                          is_done(wrapper, engine))]
    /\ UNCHANGED <<variant, runVars, sc, pol, conc, clf, cap, ui>>

\* await wrapper.close()
LifeClose(has_session, raises) ==
    /\ life.constructed
    /\ wrapper' = close_outcome(wrapper, has_session, raises)
    /\ life' = [life EXCEPT
                   !.phase = "closed",
                   !.last = Call("close", life.phase,
                                 IF wrapper.agent /\ has_session /\ raises
                                 THEN "other" ELSE "none",
                                 wrapper.agent /\ has_session, FALSE)]
    /\ UNCHANGED <<variant, pc, runNo, run_limit, task_run, task_dir, steps, sc,
                   engine, max_steps, step_num, exc, outcome, disk, h, pol, conc,
                   clf, cap, ui>>

LifecycleNext ==
    \/ LifeConstruct
    \/ \E result \in InitializeOutcomes : LifeInitialize(result)
    \/ \E eng \in EngineOutputs, raises \in BOOLEAN : LifeStep(eng, raises)
    \/ \E has_session \in BOOLEAN, raises \in BOOLEAN : LifeGetState(has_session, raises)
    \/ LifeIsDone
    \/ \E has_session \in BOOLEAN, raises \in BOOLEAN : LifeClose(has_session, raises)

LifecycleSpec == LifecycleInit /\ [][LifecycleNext]_vars

----------------------------------------------------------------------------
\* C34: in the UIStateCaptureAgent at most one coroutine is inside
\* _capture_screenshot's critical part at any time, the in-progress flag is
\* set exactly while one is (so it is False again after every attempt,
\* saved, failed or cancelled), and a capture requested while another is in
\* progress is dropped: it saves nothing and does not disturb the holder
C34_OneCaptureInProgress ==
    /\ [](ui.constructed =>
              /\ Cardinality(Holders) <= 1
              /\ ui.capture_in_progress <=> Holders # {})
    /\ [][(ui.constructed /\ ui' # ui /\ ui'.last = "dropped_busy")
              => /\ ui.capture_in_progress
                 /\ ui'.saved = ui.saved
                 /\ Holders' = Holders]_vars

\* a debounce task holds the capture and the step callback's request has
\* just been dropped
C34_Witness ==
    /\ ui.constructed
    /\ ui.last = "dropped_busy"
    /\ ui.step_pc = "none"
    /\ ui.callbacks = 1
    /\ \E t \in TaskIds : Holders = {t}

C36_DebounceOnePerBurst ==
    ui.constructed =>
        /\ \A t \in TaskIds : ui.tasks[t].pending_cancelled => ~ui.tasks[t].invoked
        /\ \A t1, t2 \in TaskIds :
               (t1 < t2 /\ ui.tasks[t1].burst # 0
                        /\ ui.tasks[t1].burst = ui.tasks[t2].burst)
                   => ~ui.tasks[t1].invoked

\* two triggers of one burst: the first was cancelled while pending, the
\* second has invoked the callback
C36_Witness ==
    /\ ui.constructed
    /\ \E t1, t2 \in TaskIds :
           /\ t1 < t2
           /\ ui.tasks[t1].burst = ui.tasks[t2].burst
           /\ ui.tasks[t1].st = "cancelled"
           /\ ui.tasks[t1].pending_cancelled
           /\ ui.tasks[t2].invoked

\* C37: a step() or get_state() call made before any initialize() call or
\* after a close() call raises RuntimeError without invoking the engine, an
\* is_done() call made then returns False, and an initialize() call on a
\* wrapper whose initialize() has returned and that was not closed since
\* creates no engine
C37_UninitializedCallsRejected ==
    life.constructed =>
        /\ (life.last.op \in {"step", "get_state"}
                /\ life.last.phase_before \in {"new", "closed"})
               => /\ life.last.error = "RuntimeError"
                  /\ ~life.last.engine_invoked
        /\ (life.last.op = "is_done" /\ life.last.phase_before \in {"new", "closed"})
               => ~life.last.result
        /\ (life.last.op = "initialize" /\ life.last.phase_before = "initialized")
               => /\ ~life.last.engine_invoked
                  /\ life.last.error = "none"

====
